---- MODULE Spec2Model ----
(***************************************************************************)
(* Cloudflare-Clist: the OAuth storage adapters (Google Drive, OneDrive,   *)
(* Aliyun Drive, Baidu Yun), their request wrappers and token refresh, the *)
(* WebDAV bridge (loader / action), the listing sort and the chunked       *)
(* putObject.                                                              *)
(*                                                                         *)
(* Conventions.  A JavaScript string is a sequence of atoms ("/" and       *)
(* whole names), so that startsWith / replace / split act on it as the     *)
(* code does.  An absent token or number is 0, an absent or empty string   *)
(* is <<>>.  Time is counted in minutes.  Sizes are counted in MiB.        *)
(***************************************************************************)
EXTENDS Integers, Sequences, FiniteSets, TLC

(* ------------------------------ bounds -------------------------------- *)
\* how many times the provider may signal auth expiry within one call
MaxAuthFail == 2
\* depth at which the JavaScript call stack is taken to be exhausted
MaxDepth == 2
\* the clock reading during the call, in minutes
Now0 == 100
\* the most entries in one page of a listing
MaxItems == 3
\* the largest payload of putObject, in MiB
MaxSize == 50
\* the largest config.chunk_size, in MiB
MaxChunk == 5
\* longest path given to a path helper, in characters
MaxLen == 3
\* longest string value of an upload state, in characters
MaxValueLen == 2
\* the most backends the config store holds
MaxBackends == 2
MaxBaiduSize == 5
\* the largest body given to Baidu putObject when its slice size is
\* computed, in MiB
MaxBaiduMiB == 65
\* the slice size of a Baidu upload (4 MiB in the code), in bytes of the model
BaiduSlice == 2
MaxAliyunSize == 4
MaxMessage == 3
\* collectStats: the most files in one folder, the deepest nesting of
\* folders, and the most entries in one page of a listing
MaxFiles == 2
MaxNest == 2
MaxPage == 2
\* the default chunk of an Aliyun upload (20 MiB in the code), in bytes of
\* the model
AliyunChunk == 3

(* ------------------------- program constants -------------------------- *)
\* the slice sizes of BaiduYunClient.getSliceSize, in MiB
defaultSlice == 4
vipSlice == 16
svipSlice == 32
\* 5 * 60 * 1000 ms: the safety margin of isTokenExpired
Margin == 5
\* 3600 * 1000 ms: the lifetime assumed when the provider sends no expires_in
DefaultLifetime == 60
\* an expires_in the provider may send (beyond the margin)
ProviderLifetime == 10
\* 5 * 1024 * 1024: the largest single-shot upload to Google Drive
GoogleSingleShot == 5
\* 4 * 1024 * 1024: the largest single-shot upload to OneDrive
OneDriveSingleShot == 4
\* the chunk size when none is configured, in MiB
DefaultChunk == 5

VARIABLES
  client,      \* the adapter object: type, config, saving, savingChanged, configChanged
  now,         \* Date.now()
  issued,      \* how many tokens the provider has issued
  pc,          \* position of the request wrapper
  sent,        \* the payload requests sent by fetch, in order
  refreshes,   \* calls of refreshToken that completed
  oauth,       \* requests sent to the token endpoint
  nAuthFail,   \* auth-expiry signals received
  depth,       \* nesting of request() inside ensureToken (Aliyun)
  result,      \* what request() gave its caller
  env,         \* context.cloudflare.env
  db,          \* the config store's record of backend StorageId
  fs,          \* the provider's drive behind that backend
  request,     \* the request being served, 0 before it arrives
  response,    \* the Response returned, 0 before
  events,      \* what the handler called, in order
  outcomes,    \* per withClientState call: did the operation throw, did the store
  listing,     \* one listObjects call: the provider's page and the result
  upload,      \* one putObject call: its locals and the uploadPart calls made
  call,        \* one call of a helper or of one adapter method: input and result
  race,        \* two requests served at once: each one's position and adapter
  collect      \* one collectStats call: its locals and the listObjects calls made

adapterVars == <<client, now, issued, pc, sent, refreshes, oauth, nAuthFail,
                 depth, result>>

bridgeVars == <<env, db, fs, request, response, events, outcomes>>

vars == <<adapterVars, bridgeVars, listing, upload, call, race, collect>>

(* ------------------------------ adapters ------------------------------ *)
OAuthTypes == {"gdrive", "onedrive", "alicloud", "baiduyun"}

\* a margin as long as the token's own lifetime
isTokenExpiredWideMargin(sv, t) ==
  IF sv.expires_at = 0 THEN TRUE ELSE t >= sv.expires_at - ProviderLifetime

\* no margin: a token counts as usable up to its expiry
isTokenExpiredNoMargin(sv, t) ==
  IF sv.expires_at = 0 THEN TRUE ELSE t >= sv.expires_at

\* GoogleDriveClient.isTokenExpired (identical in OneDrive and Aliyun)
isTokenExpired(sv, t) ==
  IF sv.expires_at = 0 THEN TRUE ELSE t >= sv.expires_at - Margin

\* whether ensureToken calls refreshToken
ensureTokenRefreshes(c, t) ==
  IF c.type = "baiduyun"
    THEN c.saving.access_token = 0
    ELSE c.saving.access_token = 0 \/ isTokenExpired(c.saving, t)

Thrown(c, net) == [thrown |-> TRUE, fetched |-> net, client |-> c]
Returned(c) == [thrown |-> FALSE, fetched |-> TRUE, client |-> c]

expiry(r, t) == t + (IF r.expires_in # 0 THEN r.expires_in ELSE DefaultLifetime)

\* a refresh that writes the refresh token into the config whether or not
\* the response carried one
storeRefreshAlways(c, r, t) ==
  [c EXCEPT !.saving = [@ EXCEPT !.access_token = r.access_token,
                                 !.refresh_token = r.refresh_token,
                                 !.expires_at = expiry(r, t)],
            !.config = [@ EXCEPT !.refresh_token = r.refresh_token],
            !.configChanged = TRUE,
            !.savingChanged = TRUE]

\* the assignments at the end of a refresh that may or may not carry a
\* refresh token (Google, OneDrive local)
storeOptionalRefresh(c, r, t) ==
  LET s1 == [c.saving EXCEPT !.access_token = r.access_token]
      s2 == IF r.refresh_token # 0
              THEN [s1 EXCEPT !.refresh_token = r.refresh_token] ELSE s1
      s3 == [s2 EXCEPT !.expires_at = expiry(r, t)]
  IN  [c EXCEPT !.saving = s3,
                !.config = IF r.refresh_token # 0
                             THEN [@ EXCEPT !.refresh_token = r.refresh_token]
                             ELSE @,
                !.configChanged = IF r.refresh_token # 0 THEN TRUE ELSE @,
                !.savingChanged = TRUE]

\* a refresh that flips the config flag instead of setting it
storeBothFlipping(c, r, t, withExpiry) ==
  LET s1 == [c.saving EXCEPT !.access_token = r.access_token,
                             !.refresh_token = r.refresh_token]
      s2 == IF withExpiry THEN [s1 EXCEPT !.expires_at = expiry(r, t)] ELSE s1
  IN  [c EXCEPT !.saving = s2,
                !.config = [@ EXCEPT !.refresh_token = r.refresh_token],
                !.savingChanged = TRUE,
                !.configChanged = ~@]

\* the assignments at the end of a refresh that requires both tokens
storeBoth(c, r, t, withExpiry) ==
  LET s1 == [c.saving EXCEPT !.access_token = r.access_token,
                             !.refresh_token = r.refresh_token]
      s2 == IF withExpiry THEN [s1 EXCEPT !.expires_at = expiry(r, t)] ELSE s1
  IN  [c EXCEPT !.saving = s2,
                !.config = [@ EXCEPT !.refresh_token = r.refresh_token],
                !.savingChanged = TRUE,
                !.configChanged = TRUE]

\* GoogleDriveClient.refreshToken
GoogleRefreshToken(c, r, t) ==
  IF ~c.config.client_id \/ ~c.config.client_secret THEN Thrown(c, FALSE)
  ELSE IF c.config.refresh_token = 0 THEN Thrown(c, FALSE)
  ELSE IF ~r.ok THEN Thrown(c, TRUE)
  ELSE IF r.access_token = 0 THEN Thrown(c, TRUE)
  ELSE Returned(storeOptionalRefresh(c, r, t))

\* refreshTokenOnline of OneDrive, Aliyun and Baidu (Baidu records no expiry)
refreshTokenOnline(c, r, t) ==
  IF ~r.ok THEN Thrown(c, TRUE)
  ELSE IF r.access_token = 0 \/ r.refresh_token = 0 THEN Thrown(c, TRUE)
  ELSE Returned(storeBoth(c, r, t, c.type # "baiduyun"))

\* OneDriveClient.refreshTokenLocal
OneDriveRefreshTokenLocal(c, r, t) ==
  IF ~c.config.client_id \/ ~c.config.client_secret THEN Thrown(c, FALSE)
  ELSE IF ~r.ok THEN Thrown(c, TRUE)
  ELSE IF r.access_token = 0 THEN Thrown(c, TRUE)
  ELSE Returned(storeOptionalRefresh(c, r, t))

\* AliyunDriveClient.refreshTokenLocal and BaiduYunClient.refreshTokenLocal
BothRefreshTokenLocal(c, r, t) ==
  IF ~c.config.client_id \/ ~c.config.client_secret THEN Thrown(c, FALSE)
  ELSE IF ~r.ok THEN Thrown(c, TRUE)
  ELSE IF r.access_token = 0 \/ r.refresh_token = 0 THEN Thrown(c, TRUE)
  ELSE Returned(storeBoth(c, r, t, c.type # "baiduyun"))

\* refreshToken: the dispatch between the relay endpoint and the local exchange
refreshToken(c, r, t) ==
  IF c.type = "gdrive" THEN GoogleRefreshToken(c, r, t)
  ELSE IF c.config.use_online_api THEN refreshTokenOnline(c, r, t)
  ELSE IF c.type = "onedrive" THEN OneDriveRefreshTokenLocal(c, r, t)
  ELSE BothRefreshTokenLocal(c, r, t)

\* what the token endpoint may answer when `n` tokens were issued before
RefreshResponses(n) ==
  [ok : {TRUE}, access_token : {0, n + 1}, refresh_token : {0, n + 1},
   expires_in : {0, ProviderLifetime}]
  \cup {[ok |-> FALSE, access_token |-> 0, refresh_token |-> 0, expires_in |-> 0]}

\* whether request() itself reacts to the auth-expiry signal
retriesOnAuthExpiry(c) == c.type \in {"gdrive", "onedrive", "baiduyun"}

\* whether request() throws on a failure other than auth expiry
throwsOnError(c) == c.type \in {"onedrive", "baiduyun"}

(* --------------------------- initial states --------------------------- *)
Configs(ty) ==
  [client_id : BOOLEAN, client_secret : BOOLEAN, refresh_token : {0, 1},
   use_online_api : IF ty = "gdrive" THEN {FALSE} ELSE BOOLEAN]

Savings(ty) ==
  [access_token : {0, 1}, refresh_token : {0},
   expires_at : IF ty = "baiduyun" THEN {0}
                ELSE {0, Now0 - 1, Now0 + Margin, Now0 + DefaultLifetime},
   drive_id : IF ty = "alicloud" THEN {0, 1} ELSE {0}]

Clients ==
  UNION {[type : {ty}, config : Configs(ty), saving : Savings(ty),
          savingChanged : {FALSE}, configChanged : {FALSE}] : ty \in OAuthTypes}

AdapterInit ==
  /\ client \in Clients
  /\ now = Now0
  /\ issued = 1
  /\ pc = "ensureToken"
  /\ sent = <<>>
  /\ refreshes = 0
  /\ oauth = 0
  /\ nAuthFail = 0
  /\ depth = 0
  /\ result = "none"
  /\ env = 0
  /\ db = 0
  /\ fs = {}
  /\ request = 0
  /\ response = 0
  /\ events = <<>>
  /\ outcomes = <<>>
  /\ listing = [pc |-> "idle"]
  /\ upload = [pc |-> "idle"]
  /\ call = [fn |-> "none"]
  /\ race = <<>>
  /\ collect = <<>>

(* ------------------------------ request() ----------------------------- *)
Finish(res) ==
  /\ pc' = "done"
  /\ result' = res

\* ensureToken, refreshing: the token endpoint answers r
ensureTokenRefresh ==
  /\ pc = "ensureToken"
  /\ ensureTokenRefreshes(client, now)
  /\ \E r \in RefreshResponses(issued) :
       LET out == refreshToken(client, r, now) IN
       /\ oauth' = IF out.fetched THEN oauth + 1 ELSE oauth
       /\ issued' = IF out.fetched THEN issued + 1 ELSE issued
       /\ IF out.thrown
            THEN /\ Finish("thrown")
                 /\ UNCHANGED <<client, refreshes>>
            ELSE /\ client' = out.client
                 /\ refreshes' = refreshes + 1
                 /\ UNCHANGED <<pc, result>>
  /\ UNCHANGED <<now, sent, nAuthFail, depth>>
  /\ UNCHANGED <<bridgeVars, listing, upload, call, race, collect>>

\* ensureToken with a usable token.  Aliyun: without a drive_id it calls
\* loadDriveInfo, whose requestJson -> request -> ensureToken comes back here
\* before any request is sent, until the call stack is exhausted.
ensureTokenValid ==
  /\ pc = "ensureToken"
  /\ ~ensureTokenRefreshes(client, now)
  /\ IF client.type = "alicloud" /\ client.saving.drive_id = 0
       THEN IF depth < MaxDepth
              THEN /\ depth' = depth + 1
                   /\ UNCHANGED <<pc, result>>
              ELSE /\ Finish("thrown")
                   /\ UNCHANGED depth
       ELSE /\ pc' = "fetch"
            /\ UNCHANGED <<depth, result>>
  /\ UNCHANGED <<client, now, issued, sent, refreshes, oauth, nAuthFail>>
  /\ UNCHANGED <<bridgeVars, listing, upload, call, race, collect>>

\* one fetch of the payload request: the request, the bearer token it carried,
\* the provider's answer, and how many refreshes had completed by then
Send(a) ==
  Append(sent, [req |-> "R", token |-> client.saving.access_token, answer |-> a,
                refreshed |-> refreshes])

\* fetch answers with success, or with a failure that is not auth expiry
fetchAnswered ==
  /\ pc = "fetch"
  /\ \E a \in {"ok", "error"} :
       /\ sent' = Send(a)
       /\ Finish(IF a = "error" /\ throwsOnError(client) THEN "thrown" ELSE a)
  /\ UNCHANGED <<client, now, issued, refreshes, oauth, nAuthFail, depth>>
  /\ UNCHANGED <<bridgeVars, listing, upload, call, race, collect>>

\* fetch answers with the auth-expiry signal: refreshToken, then request() again
fetchUnauthorized ==
  /\ pc = "fetch"
  /\ nAuthFail < MaxAuthFail
  /\ sent' = Send("unauthorized")
  /\ nAuthFail' = nAuthFail + 1
  /\ IF retriesOnAuthExpiry(client)
       THEN \E r \in RefreshResponses(issued) :
              LET out == refreshToken(client, r, now) IN
              /\ oauth' = IF out.fetched THEN oauth + 1 ELSE oauth
              /\ issued' = IF out.fetched THEN issued + 1 ELSE issued
              /\ IF out.thrown
                   THEN /\ Finish("thrown")
                        /\ UNCHANGED <<client, refreshes>>
                   ELSE /\ client' = out.client
                        /\ refreshes' = refreshes + 1
                        /\ pc' = "ensureToken"
                        /\ UNCHANGED result
       ELSE /\ Finish("unauthorized")
            /\ UNCHANGED <<client, issued, refreshes, oauth>>
  /\ UNCHANGED <<now, depth>>
  /\ UNCHANGED <<bridgeVars, listing, upload, call, race, collect>>

AdapterNext ==
  \/ ensureTokenRefresh
  \/ ensureTokenValid
  \/ fetchAnswered
  \/ fetchUnauthorized

AdapterSpec == AdapterInit /\ [][AdapterNext]_vars

(* ------------------------------ strings ------------------------------- *)
startsWith(s, p) == Len(s) >= Len(p) /\ SubSeq(s, 1, Len(p)) = p
endsWith(s, p) == Len(s) >= Len(p) /\ SubSeq(s, Len(s) - Len(p) + 1, Len(s)) = p
slice(s, from) == SubSeq(s, from + 1, Len(s))

\* drive-utils stripLeadingSlash
stripLeadingSlash(path) == IF startsWith(path, <<"/">>) THEN slice(path, 1) ELSE path

\* drive-utils stripTrailingSlash
stripTrailingSlash(path) ==
  IF Len(path) <= 1 THEN path
  ELSE IF endsWith(path, <<"/">>) THEN SubSeq(path, 1, Len(path) - 1) ELSE path

\* String.prototype.indexOf of a pattern: the first position (from 1), or 0
indexOf(s, pat) ==
  LET hits == {i \in 1..(Len(s) - Len(pat) + 1) : SubSeq(s, i, i + Len(pat) - 1) = pat}
  IN  IF hits = {} THEN 0 ELSE CHOOSE i \in hits : \A j \in hits : i <= j

\* String.prototype.lastIndexOf("/"): the last position (from 1), or 0
lastSlash(s) ==
  LET hits == {i \in 1..Len(s) : s[i] = "/"}
  IN  IF hits = {} THEN 0 ELSE CHOOSE i \in hits : \A j \in hits : i >= j

\* String.prototype.replace(pattern, ""): the first occurrence only, anywhere
removeFirst(s, pat) ==
  LET i == indexOf(s, pat)
  IN  IF i = 0 THEN s ELSE SubSeq(s, 1, i - 1) \o SubSeq(s, i + Len(pat), Len(s))

\* String.prototype.split("/")
RECURSIVE split(_)
split(s) ==
  LET i == indexOf(s, <<"/">>)
  IN  IF i = 0 THEN <<s>>
      ELSE <<SubSeq(s, 1, i - 1)>> \o split(SubSeq(s, i + 1, Len(s)))

\* split("/").filter(Boolean)
parts(s) == SelectSeq(split(s), LAMBDA x : x # <<>>)

\* normalized.includes("/") ? normalized.slice(0, normalized.lastIndexOf("/")) : ""
parentPathOf(normalized) ==
  IF lastSlash(normalized) > 0 THEN SubSeq(normalized, 1, lastSlash(normalized) - 1)
  ELSE <<>>

\* normalized.split("/").pop() || fallback
lastName(normalized, fallback) ==
  LET l == split(normalized)[Len(split(normalized))]
  IN  IF l = <<>> THEN fallback ELSE l

(* ------------------------- the provider's drive ------------------------ *)
\* A drive is a set of entries [path, isDirectory, size]; a path is the
\* sequence of names from the root, the root itself being <<>>.
exists(drive, p) == p = <<>> \/ \E f \in drive : f.path = p
isFolder(drive, p) == p = <<>> \/ \E f \in drive : f.path = p /\ f.isDirectory
under(f, p) == Len(f.path) >= Len(p) /\ SubSeq(f.path, 1, Len(p)) = p

\* GoogleDriveClient.findFileIdByPath: the id is the resolved path
findFileIdByPath(drive, path) ==
  LET p == parts(stripLeadingSlash(path))
  IN  [found |-> exists(drive, p), id |-> p]

Ok(drive) == [thrown |-> FALSE, drive |-> drive]
Fail(drive) == [thrown |-> TRUE, drive |-> drive]

\* the provider moves item `src` (with all below it) into folder `parent`
movedInto(drive, src, parent) ==
  {IF under(f, src)
     THEN [f EXCEPT !.path = parent \o <<src[Len(src)]>> \o SubSeq(f.path, Len(src) + 1, Len(f.path))]
     ELSE f : f \in drive}

\* GoogleDriveClient.moveObject; OneDrive, Aliyun and Baidu likewise take
\* destPath for the folder that receives the item under its own name
moveObject(drive, path, destPath) ==
  LET src == findFileIdByPath(drive, path)
      dst == findFileIdByPath(drive, destPath)
  IN  IF ~src.found THEN Fail(drive)
      ELSE IF ~dst.found THEN Fail(drive)
      ELSE IF src.id = <<>> \/ ~isFolder(drive, dst.id) \/ under([path |-> dst.id], src.id)
        THEN Fail(drive)   \* the provider rejects the PATCH
      ELSE Ok(movedInto(drive, src.id, dst.id))

\* GoogleDriveClient.copyObject (Aliyun, OneDrive alike)
copyObject(drive, sourceKey, destKey) ==
  LET src == findFileIdByPath(drive, sourceKey)
      n == stripLeadingSlash(destKey)
      parent == findFileIdByPath(drive, parentPathOf(n))
  IN  IF ~src.found THEN Fail(drive)
      ELSE IF ~parent.found THEN Fail(drive)
      ELSE IF src.id = <<>> \/ ~isFolder(drive, parent.id) THEN Fail(drive)
      ELSE Ok(drive \cup
              {[f EXCEPT !.path = parent.id \o <<lastName(n, <<"copy">>)>>
                                   \o SubSeq(f.path, Len(src.id) + 1, Len(f.path))]
                 : f \in {g \in drive : under(g, src.id)}})

\* GoogleDriveClient.deleteObject: a missing key is not an error
deleteObject(drive, key) ==
  LET t == findFileIdByPath(drive, key)
  IN  IF ~t.found THEN Ok(drive)
      ELSE IF t.id = <<>> THEN Fail(drive)
      ELSE Ok({f \in drive : ~under(f, t.id)})

\* GoogleDriveClient.putObject (the single-shot branch)
putObject(drive, key) ==
  LET n == stripLeadingSlash(key)
      parent == findFileIdByPath(drive, parentPathOf(n))
  IN  IF ~parent.found \/ ~isFolder(drive, parent.id) THEN Fail(drive)
      ELSE Ok(drive \cup {[path |-> parent.id \o <<lastName(n, <<"upload">>)>>,
                            isDirectory |-> FALSE, size |-> 1]})

\* GoogleDriveClient.createFolder
createFolder(drive, folderPath) ==
  LET n == stripTrailingSlash(stripLeadingSlash(folderPath))
      parent == findFileIdByPath(drive, parentPathOf(n))
  IN  IF ~parent.found \/ ~isFolder(drive, parent.id) THEN Fail(drive)
      ELSE Ok(drive \cup {[path |-> parent.id \o <<lastName(n, <<"New Folder">>)>>,
                            isDirectory |-> TRUE, size |-> 0]})

\* GoogleDriveClient.getObject
getObject(drive, key) ==
  IF findFileIdByPath(drive, key).found THEN Ok(drive) ELSE Fail(drive)

\* GoogleDriveClient.listObjects: an unresolved prefix lists as empty.
\* OneDriveClient.listObjects asks for the children of the path, and
\* request() throws on the provider's 404.
listObjectsCall(ty, drive, prefix) ==
  IF ty = "onedrive" /\ ~findFileIdByPath(drive, prefix).found
    THEN Fail(drive) ELSE Ok(drive)

\* S3Client / WebdevClient: keys are literal; an object is stored under the
\* key as given, a copy needs its source
literalCopyObject(drive, sourceKey, destKey) ==
  LET src == parts(sourceKey)
  IN  IF ~exists(drive, src) \/ src = <<>> THEN Fail(drive)
      ELSE Ok(drive \cup {[path |-> parts(destKey), isDirectory |-> FALSE, size |-> 1]})

literalDeleteObject(drive, key) == Ok({f \in drive : ~under(f, parts(key))})

\* the adapters createClient can build; the last two keep no OAuth state
StorageTypes == OAuthTypes \cup {"s3", "webdev"}

\* typeof client.getStateUpdates === "function"
hasGetStateUpdates(ty) == ty \in OAuthTypes

\* typeof client.moveObject === "function"
hasMoveObject(ty) == ty \in OAuthTypes

\* one operation of the uniform contract on the provider's drive
operation(ty, op, a, b, drive) ==
  CASE op = "listObjects" -> listObjectsCall(ty, drive, a)
    [] op = "getObject" -> getObject(drive, a)
    [] op = "putObject" ->
         IF ty \in OAuthTypes THEN putObject(drive, a)
         ELSE Ok(drive \cup {[path |-> parts(a), isDirectory |-> FALSE, size |-> 1]})
    [] op = "deleteObject" ->
         IF ty \in OAuthTypes THEN deleteObject(drive, a) ELSE literalDeleteObject(drive, a)
    [] op = "createFolder" ->
         IF ty \in OAuthTypes THEN createFolder(drive, a)
         ELSE Ok(drive \cup {[path |-> parts(a), isDirectory |-> TRUE, size |-> 0]})
    [] op = "copyObject" ->
         IF ty \in OAuthTypes THEN copyObject(drive, a, b) ELSE literalCopyObject(drive, a, b)
    [] op = "moveObject" -> moveObject(drive, a, b)
    [] OTHER -> Ok(drive)

(* --------------------------- the WebDAV bridge ------------------------- *)
\* params.storageId of the backend the store holds (parseInt leaves these
\* decimal strings as they are), of the synthetic root, of no backend
StorageId == "3"
RootId == "0"
OtherId == "9"

U(x) == <<x>>
Colon == <<":">>

\* atob(authHeader.slice(6)).split(":"), destructured into [username, password]:
\* the text before the first colon and the text between the first two colons
splitColon(cred) ==
  LET i == indexOf(cred, Colon)
      rest == IF i = 0 THEN <<>> ELSE SubSeq(cred, i + 1, Len(cred))
      j == indexOf(rest, Colon)
  IN  [username |-> IF i = 0 THEN cred ELSE SubSeq(cred, 1, i - 1),
       defined |-> i # 0,   \* without a colon the password is undefined
       password |-> IF i = 0 THEN <<>>
                    ELSE IF j = 0 THEN rest ELSE SubSeq(rest, 1, j - 1)]

\* a || b || c on strings, "" and undefined both being <<>>
orElse(a, b, c) == IF a # <<>> THEN a ELSE IF b # <<>> THEN b ELSE c

\* validateWebdavAuth
validateWebdavAuth(auth, e) ==
  IF auth.scheme = "none" THEN FALSE   \* no Authorization header
  ELSE IF auth.scheme # "Basic" THEN FALSE
  ELSE IF ~auth.decodable THEN FALSE   \* atob throws
  ELSE LET c == splitColon(auth.credentials)
           webdavUsername == orElse(e.WEBDAV_USERNAME, e.ADMIN_USERNAME, U("admin"))
           webdavPassword == orElse(e.WEBDAV_PASSWORD, e.ADMIN_PASSWORD, U("changeme"))
       IN  c.username = webdavUsername /\ c.defined /\ c.password = webdavPassword

Resp(status, body) ==
  [status |-> status, body |-> body, challenge |-> FALSE, dav |-> FALSE, entries |-> 0,
   allow |-> <<>>, multistatus |-> <<>>]

\* an answer to OPTIONS that names no method
optionsResponseBare == [Resp(200, "") EXCEPT !.dav = TRUE]

\* loader, method === "OPTIONS": status 200 with the headers DAV and Allow,
\* the Allow header as the list of the methods it names
optionsResponse ==
  [Resp(200, "") EXCEPT
     !.dav = TRUE,
     !.allow = <<"OPTIONS", "GET", "HEAD", "PUT", "DELETE", "PROPFIND", "MKCOL",
                 "COPY", "MOVE">>]

\* createUnauthorizedResponse
createUnauthorizedResponse == [Resp(401, "Unauthorized") EXCEPT !.challenge = TRUE]

Ev(op, a, b) == [op |-> op, a |-> a, b |-> b]
Call(op) == Ev(op, <<>>, <<>>)

\* createClient: the adapter built from the stored record
createClient(storage) ==
  [type |-> storage.type, config |-> storage.config, saving |-> storage.saving,
   savingChanged |-> FALSE, configChanged |-> FALSE]

\* a getStateUpdates that hands over both maps whenever either is dirty
getStateUpdatesBoth(c) ==
  [isNull |-> ~c.savingChanged /\ ~c.configChanged,
   hasConfig |-> TRUE, config |-> c.config,
   hasSaving |-> TRUE, saving |-> c.saving]

\* getStateUpdates
getStateUpdates(c) ==
  [isNull |-> ~c.savingChanged /\ ~c.configChanged,
   hasConfig |-> c.configChanged, config |-> c.config,
   hasSaving |-> c.savingChanged, saving |-> c.saving]

\* persistClientState: the store's record afterwards, whether updateStorage
\* was called, which maps its input carried, and whether it threw
persistClientState(c, storage, storeFails) ==
  LET updates == getStateUpdates(c)
      input == [hasConfig |-> updates.hasConfig, hasSaving |-> updates.hasSaving]
      NoInput == [hasConfig |-> FALSE, hasSaving |-> FALSE]
  IN
  IF ~hasGetStateUpdates(c.type) \/ updates.isNull
    THEN [db |-> storage, called |-> FALSE, thrown |-> FALSE, input |-> NoInput]
  ELSE IF input = NoInput
    THEN [db |-> storage, called |-> FALSE, thrown |-> FALSE, input |-> NoInput]
  ELSE IF storeFails
    THEN [db |-> storage, called |-> TRUE, thrown |-> TRUE, input |-> input]
  ELSE [db |-> [storage EXCEPT
                  !.config = IF input.hasConfig THEN updates.config ELSE @,
                  !.saving = IF input.hasSaving THEN updates.saving ELSE @],
        called |-> TRUE, thrown |-> FALSE, input |-> input]

\* What one adapter operation can do, seen from the bridge: the token work
\* of request() (a refresh when ensureToken asks for one or the provider
\* signals expiry, answered by r), then either a failure of the provider
\* or the operation's effect on the drive.
invoke(c, op, a, b, drive, t, r, signal, fault) ==
  LET refreshing == /\ c.type \in OAuthTypes
                    /\ \/ ensureTokenRefreshes(c, t)
                       \/ signal /\ retriesOnAuthExpiry(c)
      out == IF refreshing THEN refreshToken(c, r, t) ELSE Returned(c)
      eff == operation(c.type, op, a, b, drive)
  IN  IF out.thrown
        THEN [thrown |-> TRUE, faulted |-> TRUE, client |-> c, drive |-> drive]
      ELSE IF fault \/ (signal /\ c.type = "alicloud")
        THEN [thrown |-> TRUE, faulted |-> TRUE, client |-> out.client, drive |-> drive]
      ELSE [thrown |-> eff.thrown, faulted |-> FALSE, client |-> out.client,
            drive |-> eff.drive]

\* the outcomes of one adapter operation
Invocations(c, op, a, b, drive, t, n) ==
  {invoke(c, op, a, b, drive, t, r, signal, fault) :
     r \in RefreshResponses(n), signal \in BOOLEAN, fault \in BOOLEAN}

\* a withClientState that reads the adapter's state back only after a success
withClientStateOnSuccess(op, o, storage, storeFails) ==
  LET p == persistClientState(o.client, storage, storeFails)
  IN  [thrown |-> o.thrown,
       client |-> o.client,
       drive |-> o.drive,
       db |-> IF o.thrown THEN storage ELSE p.db,
       events |-> IF o.thrown THEN <<op>>
                  ELSE <<op, Call("persistClientState")>>
                         \o (IF p.called THEN <<Call("updateStorage")>> ELSE <<>>),
       outcome |-> [thrown |-> o.thrown, faulted |-> o.faulted,
                    storeThrown |-> ~o.thrown /\ p.thrown]]

\* withClientState(client, db, storageId, action) when action has ended as o:
\* try { return await action() } finally { try { persist } catch { log } }
withClientState(op, o, storage, storeFails) ==
  LET p == persistClientState(o.client, storage, storeFails)
  IN  [thrown |-> o.thrown,
       client |-> o.client,
       drive |-> o.drive,
       db |-> p.db,
       events |-> <<op, Call("persistClientState")>>
                    \o (IF p.called THEN <<Call("updateStorage")>> ELSE <<>>),
       outcome |-> [thrown |-> o.thrown, faulted |-> o.faulted,
                    storeThrown |-> p.thrown]]

\* the handler's result: the response and the state it leaves
Answer(resp, evs, outs, storage, drive, c) ==
  [response |-> resp, events |-> evs, outcomes |-> outs, db |-> storage,
   fs |-> drive, client |-> c]

Reply(resp, evs) == Answer(resp, evs, <<>>, db, fs, client)

\* one operation through withClientState, answered by `good` or `bad`
Served(pre, w, good, bad) ==
  Answer(IF w.thrown THEN bad ELSE good, pre \o w.events, <<w.outcome>>,
         w.db, w.drive, w.client)

Prefix(id) == <<"/", "dav", "/", id, "/">>

\* what every handler does before it looks at the method
opened == <<Call("initDatabase"), Call("getStorageById"), Call("createClient")>>

\* the entries directly under folder p
children(drive, p) == {f \in drive : Len(f.path) = Len(p) + 1 /\ under(f, p)}

\* the entries of a set in the order the adapter hands them over
RECURSIVE asSequence(_)
asSequence(S) ==
  IF S = {} THEN <<>>
  ELSE LET x == CHOOSE y \in S : TRUE IN <<x>> \o asSequence(S \ {x})

\* result.objects of listObjects(path): name, size and isDirectory of the
\* entries under the resolved path, none when the path does not resolve
resultObjects(drive, path) ==
  LET t == findFileIdByPath(drive, path)
      listed == asSequence(IF t.found THEN children(drive, t.id) ELSE {})
  IN  [i \in 1..Len(listed) |->
         [name |-> listed[i].path[Len(listed[i].path)], size |-> listed[i].size,
          isDirectory |-> listed[i].isDirectory]]

\* the <D:response> of one object: a collection resourcetype for a
\* directory, an empty one and getcontentlength for a file
responseOf(obj) ==
  IF obj.isDirectory
    THEN [displayname |-> obj.name, collection |-> TRUE, getcontentlength |-> <<>>]
    ELSE [displayname |-> obj.name, collection |-> FALSE, getcontentlength |-> <<obj.size>>]

\* a document without the response for the requested collection
generatePropfindResponseBare(objects, requestPath) ==
  [i \in 1..Len(objects) |-> responseOf(objects[i])]

\* generatePropfindResponse: the <D:response> elements of the multistatus
\* document, the requested collection first, then one per object
generatePropfindResponse(objects, requestPath) ==
  <<[displayname |-> lastName(requestPath, <<"root">>), collection |-> TRUE,
     getcontentlength |-> <<>>]>>
  \o [i \in 1..Len(objects) |-> responseOf(objects[i])]

\* the 207 answer of PROPFIND with its document
multistatus(drive, path) ==
  LET xml == generatePropfindResponse(resultObjects(drive, path), path)
  IN  [Resp(207, "multistatus") EXCEPT !.entries = Len(xml), !.multistatus = xml]

\* a handler that builds the adapter before it tests the record it looked up
lookedUpAfterCreate == opened

\* what a handler has done when getStorageById returns null
lookedUp == <<Call("initDatabase"), Call("getStorageById")>>

\* a root listing that stops after the first backend
xmlResponsesFirstOnly(stored) == <<RootId, stored[1]>>

\* loader, storageId === 0: xmlResponses, one response for the root
\* collection and one pushed per storage of getAllStorages
xmlResponses(stored) == <<RootId>> \o stored

\* loader of dav.$storageId.$ for a request q; the choices are the adapter's
\* outcome o, whether the store's update fails, and the ids of the backends
\* that getAllStorages finds in the store
loaderResult(q, o, storeFails, stored) ==
  IF q.method = "OPTIONS" THEN Reply(optionsResponse, <<>>)
  ELSE IF ~env.WEBDAV_ENABLED THEN Reply(Resp(403, "WebDAV is disabled"), <<>>)
  ELSE IF ~validateWebdavAuth(q.auth, env) THEN Reply(createUnauthorizedResponse, <<>>)
  ELSE IF q.storageId = RootId
    THEN IF q.method = "PROPFIND"
           THEN Reply([Resp(207, "multistatus") EXCEPT !.entries = Len(xmlResponses(stored))],
                      <<Call("initDatabase"), Ev("getAllStorages", stored, <<>>)>>)
           ELSE Reply(Resp(405, "Method not allowed"), <<Call("initDatabase")>>)
  ELSE IF q.storageId # StorageId
    THEN Reply(Resp(404, "Storage not found"), lookedUp)
  ELSE IF q.method = "PROPFIND"
    THEN Served(opened,
                withClientState(Ev("listObjects", q.path, <<>>), o, db, storeFails),
                multistatus(o.drive, q.path), Resp(500, "Internal Server Error"))
  ELSE IF q.method \in {"GET", "HEAD"}
    THEN IF endsWith(q.path, <<"/">>) \/ q.path = <<>>
           THEN Served(opened,
                       withClientState(Ev("listObjects", q.path, <<>>), o, db, storeFails),
                       Resp(200, "index"), Resp(404, "Not Found"))
           ELSE Served(opened,
                       withClientState(Ev("getObject", q.path, <<>>), o, db, storeFails),
                       Resp(200, "content"), Resp(404, "Not Found"))
  ELSE Reply(Resp(405, "Method not allowed"), opened)

\* the adapter operation the loader invokes for q
loaderOp(q) ==
  IF q.method = "PROPFIND" \/ endsWith(q.path, <<"/">>) \/ q.path = <<>>
    THEN "listObjects" ELSE "getObject"

\* destUrl.pathname.replace(`/dav/${storageId}/`, "")
destPathOf(q) == removeFirst(q.destination.pathname, Prefix(q.storageId))

\* an action whose MOVE begins with copyObject on every adapter
actionOpCopyFirst(q, ty) ==
  CASE q.method = "PUT" -> Ev("putObject", q.path, <<>>)
    [] q.method = "DELETE" -> Ev("deleteObject", q.path, <<>>)
    [] q.method = "MKCOL" -> Ev("createFolder", q.path, <<>>)
    [] q.method = "COPY" -> Ev("copyObject", q.path, destPathOf(q))
    [] q.method = "MOVE" -> Ev("copyObject", q.path, destPathOf(q))
    [] OTHER -> Call("none")

\* the adapter operation that action invokes first for q on an adapter of type ty
actionOp(q, ty) ==
  CASE q.method = "PUT" -> Ev("putObject", q.path, <<>>)
    [] q.method = "DELETE" -> Ev("deleteObject", q.path, <<>>)
    [] q.method = "MKCOL" -> Ev("createFolder", q.path, <<>>)
    [] q.method = "COPY" -> Ev("copyObject", q.path, destPathOf(q))
    [] q.method = "MOVE" ->
         Ev(IF hasMoveObject(ty) THEN "moveObject" ELSE "copyObject", q.path, destPathOf(q))
    [] OTHER -> Call("none")

\* action of dav.$storageId.$ for a request q; o is the outcome of the
\* first adapter operation and o2 that of the deleteObject of the
\* copy-then-delete fallback
actionResult(q, o, storeFails, o2, storeFails2) ==
  IF ~env.WEBDAV_ENABLED THEN Reply(Resp(403, "WebDAV is disabled"), <<>>)
  ELSE IF ~validateWebdavAuth(q.auth, env) THEN Reply(createUnauthorizedResponse, <<>>)
  ELSE IF q.storageId = RootId
    THEN Reply(Resp(403, "Cannot modify root"), <<Call("initDatabase")>>)
  ELSE IF q.storageId # StorageId
    THEN Reply(Resp(404, "Storage not found"), lookedUp)
  ELSE IF q.method = "PUT"
    THEN Served(opened, withClientState(actionOp(q, db.type), o, db, storeFails),
                Resp(201, ""), Resp(500, "Failed to upload file"))
  ELSE IF q.method = "DELETE"
    THEN Served(opened, withClientState(actionOp(q, db.type), o, db, storeFails),
                Resp(204, ""), Resp(500, "Failed to delete"))
  ELSE IF q.method = "MKCOL"
    THEN Served(opened, withClientState(actionOp(q, db.type), o, db, storeFails),
                Resp(201, ""), Resp(500, "Failed to create directory"))
  ELSE IF q.method = "COPY"
    THEN IF ~q.destination.present THEN Reply(Resp(400, "Destination header required"), opened)
         ELSE IF ~q.destination.valid THEN Reply(Resp(500, "Failed to copy"), opened)
         ELSE Served(opened, withClientState(actionOp(q, db.type), o, db, storeFails),
                     Resp(201, ""), Resp(500, "Failed to copy"))
  ELSE IF q.method = "MOVE"
    THEN IF ~q.destination.present THEN Reply(Resp(400, "Destination header required"), opened)
         ELSE IF ~q.destination.valid THEN Reply(Resp(500, "Failed to move"), opened)
         ELSE IF hasMoveObject(db.type)
           THEN Served(opened, withClientState(actionOp(q, db.type), o, db, storeFails),
                       Resp(201, ""), Resp(500, "Failed to move"))
         ELSE LET w1 == withClientState(actionOp(q, db.type), o, db, storeFails)
                  w2 == withClientState(Ev("deleteObject", q.path, <<>>), o2, w1.db, storeFails2)
              IN  IF w1.thrown
                    THEN Served(opened, w1, Resp(201, ""), Resp(500, "Failed to move"))
                    ELSE Answer(IF w2.thrown THEN Resp(500, "Failed to move") ELSE Resp(201, ""),
                                opened \o w1.events \o w2.events,
                                <<w1.outcome, w2.outcome>>, w2.db, w2.drive, w2.client)
  ELSE Reply(Resp(405, "Method not allowed"), opened)

\* loader of api.storage-stats.$storageId: the admin check, the id, the
\* record, then collectStats through withClientState
statsResult(q, o, storeFails) ==
  IF ~q.isAdmin THEN Reply(Resp(403, "Unauthorized"), <<Call("initDatabase")>>)
  ELSE IF q.storageId = RootId
    THEN Reply(Resp(400, "Invalid storage ID"), <<Call("initDatabase")>>)
  ELSE IF q.storageId # StorageId
    THEN Reply(Resp(404, "Storage not found"), lookedUp)
  ELSE Served(<<Call("initDatabase"), Call("getStorageById"), Call("createClient")>>,
              withClientState(Call("collectStats"), o, db, storeFails),
              Resp(200, "stats"), Resp(500, "error"))

(* ------------------------------ requests ------------------------------- *)
Basic(cred) == [scheme |-> "Basic", decodable |-> TRUE, credentials |-> cred]

Auths ==
  {[scheme |-> "none", decodable |-> TRUE, credentials |-> <<>>],
   [scheme |-> "Bearer", decodable |-> TRUE, credentials |-> <<>>],
   [scheme |-> "Basic", decodable |-> FALSE, credentials |-> <<>>],
   Basic(<<"u", ":", "p">>), Basic(<<"w", ":", "q">>), Basic(<<"w", ":", "p">>),
   Basic(<<"u", ":", "x">>), Basic(<<"u", ":", "p", ":", "x">>),
   Basic(<<"admin", ":", "changeme">>)}

Envs ==
  [WEBDAV_ENABLED : BOOLEAN, WEBDAV_USERNAME : {<<>>, U("w")},
   WEBDAV_PASSWORD : {<<>>, U("q")}, ADMIN_USERNAME : {U("u")}, ADMIN_PASSWORD : {U("p")}]
  \cup [WEBDAV_ENABLED : {TRUE}, WEBDAV_USERNAME : {<<>>}, WEBDAV_PASSWORD : {<<>>},
        ADMIN_USERNAME : {<<>>}, ADMIN_PASSWORD : {<<>>}]

Paths == {<<>>, <<"a">>, <<"sub", "/">>, <<"sub", "/", "c">>, <<"zz">>}

Url(pathname) == [present |-> TRUE, valid |-> TRUE, pathname |-> pathname]

NoDestination == [present |-> FALSE, valid |-> FALSE, pathname |-> <<>>]

Destinations ==
  {NoDestination, [present |-> TRUE, valid |-> FALSE, pathname |-> <<>>],
   Url(Prefix(StorageId) \o <<"sub", "/", "b">>),
   Url(Prefix(StorageId) \o <<"b">>),
   Url(Prefix(StorageId) \o <<"sub", "/">>),
   Url(Prefix(StorageId) \o <<"zz", "/", "b">>),
   Url(Prefix(OtherId) \o <<"b">>),
   Url(<<"/", "sub">>),
   Url(<<"/", "x">> \o Prefix(StorageId) \o <<"b">>)}

Ids == {RootId, StorageId, OtherId}

LoaderRequests ==
  [method : {"OPTIONS", "GET", "HEAD", "PROPFIND"}, auth : Auths, storageId : Ids,
   path : Paths, destination : {NoDestination}]

ActionRequests ==
  [method : {"PUT", "DELETE", "MKCOL", "POST"}, auth : Auths, storageId : Ids,
   path : Paths, destination : {NoDestination}]
  \cup [method : {"COPY", "MOVE"}, auth : Auths, storageId : Ids,
        path : Paths, destination : Destinations]

StatsRequests == [isAdmin : BOOLEAN, storageId : Ids]

\* what getAllStorages may find: the backend StorageId alone, or it and
\* up to MaxBackends - 1 further backends
StoredIds == {SubSeq(<<StorageId, "5", "6", "7">>, 1, n) : n \in 1..MaxBackends}

\* the drive at the start: a.txt, sub/ and sub/c
Drive0 ==
  {[path |-> <<U("a")>>, isDirectory |-> FALSE, size |-> 10],
   [path |-> <<U("sub")>>, isDirectory |-> TRUE, size |-> 0],
   [path |-> <<U("sub"), U("c")>>, isDirectory |-> FALSE, size |-> 1]}

\* the stored record of the backend
Storages ==
  UNION {[type : {ty},
          config : [client_id : {TRUE}, client_secret : {TRUE}, refresh_token : {1},
                    use_online_api : {FALSE}],
          saving : [access_token : IF ty \in OAuthTypes THEN {0, 1} ELSE {0},
                    refresh_token : {0},
                    expires_at : {IF ty = "baiduyun" THEN 0 ELSE Now0 + DefaultLifetime},
                    drive_id : {IF ty = "alicloud" THEN 1 ELSE 0}]]
           : ty \in StorageTypes}

(* ------------------------------ the bridge ----------------------------- *)
BridgeInit ==
  /\ client = 0
  /\ now = Now0
  /\ issued = 1
  /\ pc = "idle"
  /\ sent = <<>>
  /\ refreshes = 0
  /\ oauth = 0
  /\ nAuthFail = 0
  /\ depth = 0
  /\ result = "none"
  /\ listing = [pc |-> "idle"]
  /\ upload = [pc |-> "idle"]
  /\ call = [fn |-> "none"]
  /\ race = <<>>
  /\ collect = <<>>
  /\ env \in Envs
  /\ db \in Storages
  /\ fs = Drive0
  /\ request = 0
  /\ response = 0
  /\ events = <<>>
  /\ outcomes = <<>>

Respond(q, res) ==
  /\ pc' = "served"
  /\ request' = q
  /\ response' = res.response
  /\ events' = res.events
  /\ outcomes' = res.outcomes
  /\ db' = res.db
  /\ fs' = res.fs
  /\ client' = res.client
  /\ UNCHANGED <<env, now, issued, sent, refreshes, oauth, nAuthFail, depth,
                 result, listing, upload, call, race, collect>>

\* whether the handler gets as far as the adapter for q
admitted(q) ==
  /\ env.WEBDAV_ENABLED
  /\ validateWebdavAuth(q.auth, env)
  /\ q.storageId = StorageId

Untouched == [thrown |-> FALSE, faulted |-> FALSE, client |-> client, drive |-> fs]

loader ==
  /\ pc = "idle"
  /\ \E q \in LoaderRequests :
       \E o \in IF admitted(q)
                  THEN Invocations(createClient(db), loaderOp(q), q.path, <<>>, fs, now, issued)
                  ELSE {Untouched} :
         \E storeFails \in IF admitted(q) THEN BOOLEAN ELSE {FALSE} :
           \E stored \in IF q.storageId = RootId /\ q.method = "PROPFIND"
                           THEN StoredIds ELSE {<<StorageId>>} :
             Respond(q, loaderResult(q, o, storeFails, stored))

action ==
  /\ pc = "idle"
  /\ \E q \in ActionRequests :
       LET first == actionOp(q, db.type)
           moving == admitted(q) /\ q.method = "MOVE" /\ ~hasMoveObject(db.type)
                     /\ q.destination.valid
       IN
       \E o \in IF admitted(q) /\ first.op # "none"
                     /\ (q.method \in {"COPY", "MOVE"} => q.destination.valid)
                  THEN Invocations(createClient(db), first.op, first.a, first.b, fs, now, issued)
                  ELSE {Untouched} :
         \E storeFails \in IF admitted(q) THEN BOOLEAN ELSE {FALSE} :
           \E o2 \in IF moving /\ ~o.thrown
                       THEN Invocations(o.client, "deleteObject", q.path, <<>>, o.drive, now, issued)
                       ELSE {o} :
             \E storeFails2 \in IF moving /\ ~o.thrown THEN BOOLEAN ELSE {FALSE} :
               Respond(q, actionResult(q, o, storeFails, o2, storeFails2))

statsLoader ==
  /\ pc = "idle"
  /\ \E q \in StatsRequests :
       \E o \in IF q.isAdmin /\ q.storageId = StorageId
                  THEN Invocations(createClient(db), "collectStats", <<>>, <<>>, fs, now, issued)
                  ELSE {Untouched} :
         \E storeFails \in BOOLEAN :
           Respond([method |-> "STATS", storageId |-> q.storageId, isAdmin |-> q.isAdmin],
                   statsResult(q, o, storeFails))

BridgeNext ==
  \/ loader
  \/ action
  \/ statsLoader

BridgeSpec == BridgeInit /\ [][BridgeNext]_vars

(* ----------------------------- listObjects ----------------------------- *)
\* In a listing a name is a sequence of the letters a, b, A, B.

\* the UTF-16 code unit of a letter
codeUnit(ch) == CASE ch = "A" -> 65 [] ch = "B" -> 66 [] ch = "a" -> 97 [] OTHER -> 98

\* the collation weights of a letter: the base letter first, then the case
\* (lower case before upper case)
primary(ch) == IF ch \in {"a", "A"} THEN 1 ELSE 2
tertiary(ch) == IF ch \in {"a", "b"} THEN 0 ELSE 1

\* the order of two sequences of numbers, as -1, 0 or 1
RECURSIVE compareSeq(_, _)
compareSeq(u, v) ==
  IF u = <<>> THEN (IF v = <<>> THEN 0 ELSE -1)
  ELSE IF v = <<>> THEN 1
  ELSE IF u[1] < v[1] THEN -1
  ELSE IF u[1] > v[1] THEN 1
  ELSE compareSeq(Tail(u), Tail(v))

primaries(x) == [i \in 1..Len(x) |-> primary(x[i])]
tertiaries(x) == [i \in 1..Len(x) |-> tertiary(x[i])]
codeUnits(x) == [i \in 1..Len(x) |-> codeUnit(x[i])]

\* String.prototype.localeCompare: the base letters decide, the case
\* only breaks a tie between names equal up to case
localeCompare(x, y) ==
  IF compareSeq(primaries(x), primaries(y)) # 0
    THEN compareSeq(primaries(x), primaries(y))
    ELSE compareSeq(tertiaries(x), tertiaries(y))

\* a comparator that looks at the name only
compareByNameOnly(a, b) == localeCompare(a.name, b.name)

\* the comparator given to sort by listObjects
compareObjects(a, b) ==
  IF a.isDirectory # b.isDirectory THEN (IF a.isDirectory THEN -1 ELSE 1)
  ELSE localeCompare(a.name, b.name)

\* Array.prototype.sort (stable): x goes after the entries it does not precede
RECURSIVE insert(_, _)
insert(sorted, x) ==
  IF sorted = <<>> THEN <<x>>
  ELSE IF compareObjects(x, sorted[Len(sorted)]) >= 0 THEN Append(sorted, x)
  ELSE Append(insert(SubSeq(sorted, 1, Len(sorted) - 1), x), sorted[Len(sorted)])

RECURSIVE sort(_)
sort(objects) ==
  IF objects = <<>> THEN <<>>
  ELSE insert(sort(SubSeq(objects, 1, Len(objects) - 1)), objects[Len(objects)])

\* normalized ? `${stripTrailingSlash(normalized)}/` : ""
keyBaseOf(prefix) ==
  LET normalized == stripLeadingSlash(prefix)
  IN  IF normalized # <<>> THEN stripTrailingSlash(normalized) \o <<"/">> ELSE <<>>

\* the DriveObject pushed for one entry of the provider's page
driveObject(keyBase, file) ==
  [key |-> IF file.isDirectory THEN keyBase \o file.name \o <<"/">> ELSE keyBase \o file.name,
   name |-> file.name,
   isDirectory |-> file.isDirectory]

\* the loop over the page and the return of listObjects
listObjectsResult(prefix, files) ==
  LET objects == [i \in 1..Len(files) |-> driveObject(keyBaseOf(prefix), files[i])]
  IN  [objects |-> sort(objects),
       prefixes |-> [i \in 1..Len(SelectSeq(objects, LAMBDA o : o.isDirectory))
                       |-> SelectSeq(objects, LAMBDA o : o.isDirectory)[i].key]]

EmptyListing == [objects |-> <<>>, prefixes |-> <<>>]

\* what the provider's page says about a next page (nextPageToken,
\* @odata.nextLink, next_marker): the field left out, null, the empty
\* string or a marker
Undefined == [kind |-> "undefined", s |-> <<>>]
Markers ==
  {Undefined, [kind |-> "null", s |-> <<>>], [kind |-> "string", s |-> <<>>],
   [kind |-> "string", s |-> <<"m">>]}

\* !!marker
truthy(marker) == marker.kind = "string" /\ marker.s # <<>>

\* isTruncated and nextContinuationToken of the result: Google, OneDrive
\* and Aliyun hand the provider's field over as it is, Baidu returns
\* isTruncated: false and no token
pageEnd(ty, marker) ==
  IF ty = "baiduyun" THEN [isTruncated |-> FALSE, nextContinuationToken |-> Undefined]
  ELSE [isTruncated |-> truthy(marker), nextContinuationToken |-> marker]

Names == {<<"a">>, <<"B">>, <<"a", "b">>, <<"A">>}

Files == [name : Names, isDirectory : BOOLEAN]

Pages == UNION {[1..n -> Files] : n \in 0..MaxItems}

ListPrefixes == {<<>>, <<"b", "/">>, <<"/", "b">>}

ListInit ==
  /\ client = 0
  /\ now = Now0
  /\ issued = 1
  /\ pc = "idle"
  /\ sent = <<>>
  /\ refreshes = 0
  /\ oauth = 0
  /\ nAuthFail = 0
  /\ depth = 0
  /\ result = "none"
  /\ env = 0
  /\ db = 0
  /\ fs = {}
  /\ request = 0
  /\ response = 0
  /\ events = <<>>
  /\ outcomes = <<>>
  /\ upload = [pc |-> "idle"]
  /\ call = [fn |-> "none"]
  /\ race = <<>>
  /\ collect = <<>>
  /\ listing \in [pc : {"called"}, type : OAuthTypes, prefix : ListPrefixes]

\* listObjects when the prefix does not resolve: Google Drive and Aliyun
\* return an empty page, on OneDrive and Baidu the request throws
listObjectsMissing ==
  /\ listing.pc = "called"
  /\ listing' = IF listing.type \in {"gdrive", "alicloud"}
                  THEN [pc |-> "returned", type |-> listing.type, prefix |-> listing.prefix,
                        files |-> <<>>, result |-> EmptyListing,
                        page |-> [isTruncated |-> FALSE, nextContinuationToken |-> Undefined]]
                  ELSE [pc |-> "thrown", type |-> listing.type, prefix |-> listing.prefix]
  /\ UNCHANGED <<adapterVars, bridgeVars, upload, call, race, collect>>

\* listObjects when the provider answers with a page of entries
listObjects ==
  /\ listing.pc = "called"
  /\ \E files \in Pages, marker \in Markers :
       listing' = [pc |-> "returned", type |-> listing.type, prefix |-> listing.prefix,
                   files |-> files, result |-> listObjectsResult(listing.prefix, files),
                   page |-> pageEnd(listing.type, marker)]
  /\ UNCHANGED <<adapterVars, bridgeVars, upload, call, race, collect>>

ListNext ==
  \/ listObjectsMissing
  \/ listObjects

ListSpec == ListInit /\ [][ListNext]_vars

(* ---------------------------- upload tokens ---------------------------- *)
\* Strings of this section are sequences of UTF-16 code units. An attribute
\* map is the sequence of its members <<key, value>> in insertion order; a
\* value is a string or a number.
Str(s) == [isString |-> TRUE, s |-> s, n |-> 0]
Num(n) == [isString |-> FALSE, s |-> <<>>, n |-> n]

\* the code units of the literals the adapters put into an upload state
utf16(literal) ==
  CASE literal = "provider" -> <<112, 114, 111, 118, 105, 100, 101, 114>>
    [] literal = "chunkSize" -> <<99, 104, 117, 110, 107, 83, 105, 122, 101>>
    [] literal = "fileSize" -> <<102, 105, 108, 101, 83, 105, 122, 101>>
    [] literal = "gdrive" -> <<103, 100, 114, 105, 118, 101>>
    [] literal = "onedrive" -> <<111, 110, 101, 100, 114, 105, 118, 101>>
    [] literal = "alicloud" -> <<97, 108, 105, 99, 108, 111, 117, 100>>
    [] literal = "fileId" -> <<102, 105, 108, 101, 73, 100>>
    [] literal = "uploadId" -> <<117, 112, 108, 111, 97, 100, 73, 100>>
    [] literal = "uploadUrl" -> <<117, 112, 108, 111, 97, 100, 85, 114, 108>>

\* state.key of a decoded state that has the key
field(state, key) ==
  state[CHOOSE i \in 1..Len(state) : state[i][1] = key][2]

\* the decimal digits of a natural number
RECURSIVE digits(_)
digits(n) == IF n < 10 THEN <<48 + n>> ELSE digits(n \div 10) \o <<48 + (n % 10)>>

\* JSON.stringify of an attribute map whose strings need no escape: no
\* blanks, members separated by "," and key and value by ":"
valueText(v) == IF v.isString THEN <<34>> \o v.s \o <<34>> ELSE digits(v.n)

memberText(m) == <<34>> \o m[1] \o <<34, 58>> \o valueText(m[2])

RECURSIVE membersText(_)
membersText(state) ==
  IF state = <<>> THEN <<>>
  ELSE IF Len(state) = 1 THEN memberText(state[1])
  ELSE memberText(state[1]) \o <<44>> \o membersText(Tail(state))

JSONstringify(state) == <<123>> \o membersText(state) \o <<125>>

\* the base64 alphabet: A-Z, a-z, 0-9, "+", "/"
b64char(v) ==
  IF v < 26 THEN 65 + v
  ELSE IF v < 52 THEN 71 + v
  ELSE IF v < 62 THEN v - 4
  ELSE IF v = 62 THEN 43 ELSE 47

b64value(c) ==
  IF c \in 65..90 THEN c - 65
  ELSE IF c \in 97..122 THEN c - 71
  ELSE IF c \in 48..57 THEN c + 4
  ELSE IF c = 43 THEN 62
  ELSE IF c = 47 THEN 63 ELSE -1

\* three bytes to four characters, the last group padded with "="
toBase64(b) ==
  LET n == Len(b)
      byte(i) == IF i <= n THEN b[i] ELSE 0
      char(j) ==
        LET g == 3 * ((j - 1) \div 4)
            b1 == byte(g + 1)
            b2 == byte(g + 2)
            b3 == byte(g + 3)
        IN  CASE (j - 1) % 4 = 0 -> b64char(b1 \div 4)
              [] (j - 1) % 4 = 1 -> b64char((b1 % 4) * 16 + (b2 \div 16))
              [] (j - 1) % 4 = 2 ->
                   IF g + 2 > n THEN 61 ELSE b64char((b2 % 16) * 4 + (b3 \div 64))
              [] OTHER -> IF g + 3 > n THEN 61 ELSE b64char(b3 % 64)
  IN  [j \in 1..(4 * ((n + 2) \div 3)) |-> char(j)]

\* btoa: throws InvalidCharacterError on a code unit above 0xFF
btoa(s) ==
  IF \E i \in 1..Len(s) : s[i] > 255
    THEN [thrown |-> TRUE, value |-> <<>>]
    ELSE [thrown |-> FALSE, value |-> toBase64(s)]

\* four sextets to three bytes; the bits left over in a last group of two or
\* three are dropped
fromBase64(v) ==
  LET n == Len(v)
      last == IF n % 4 = 2 THEN 1 ELSE IF n % 4 = 3 THEN 2 ELSE 0
      byte(k) ==
        LET g == 4 * ((k - 1) \div 3)
        IN  CASE (k - 1) % 3 = 0 -> v[g + 1] * 4 + (v[g + 2] \div 16)
              [] (k - 1) % 3 = 1 -> (v[g + 2] % 16) * 16 + (v[g + 3] \div 4)
              [] OTHER -> (v[g + 3] % 4) * 64 + v[g + 4]
  IN  [k \in 1..(3 * (n \div 4) + last) |-> byte(k)]

\* atob (forgiving-base64 decode): ASCII whitespace is removed, one or two
\* "=" are removed from the end of a length that is a multiple of 4, then a
\* length of 1 modulo 4 or a character outside the alphabet throws
atob(s) ==
  LET data == SelectSeq(s, LAMBDA c : c \notin {9, 10, 12, 13, 32})
      unpadded == IF Len(data) % 4 = 0 /\ endsWith(data, <<61, 61>>)
                    THEN SubSeq(data, 1, Len(data) - 2)
                  ELSE IF Len(data) % 4 = 0 /\ endsWith(data, <<61>>)
                    THEN SubSeq(data, 1, Len(data) - 1)
                  ELSE data
  IN  IF Len(unpadded) % 4 = 1 \/ \E i \in 1..Len(unpadded) : b64value(unpadded[i]) = -1
        THEN [thrown |-> TRUE, value |-> <<>>]
        ELSE [thrown |-> FALSE,
              value |-> fromBase64([i \in 1..Len(unpadded) |-> b64value(unpadded[i])])]

\* String.prototype.replace(/a/g, b) for single characters
replaceAll(s, a, b) == [i \in 1..Len(s) |-> IF s[i] = a THEN b ELSE s[i]]

\* String.prototype.replace(/=+$/g, "")
RECURSIVE stripPadding(_)
stripPadding(s) ==
  IF s # <<>> /\ s[Len(s)] = 61 THEN stripPadding(SubSeq(s, 1, Len(s) - 1)) ELSE s

\* String.prototype.split on one character
RECURSIVE splitOn(_, _)
splitOn(s, sep) ==
  LET i == indexOf(s, <<sep>>)
  IN  IF i = 0 THEN <<s>>
      ELSE <<SubSeq(s, 1, i - 1)>> \o splitOn(SubSeq(s, i + 1, Len(s)), sep)

\* JSON.parse on the texts it is modelled for: a number without sign,
\* fraction or exponent, the empty array, and an object whose members are
\* strings or such numbers, written without blanks and without escapes,
\* "," or (in keys) ":" inside strings. Every text accepted here JSON.parse
\* accepts with the same value; every other text is taken as a SyntaxError.
isDigits(t) ==
  /\ t # <<>>
  /\ \A i \in 1..Len(t) : t[i] \in 48..57
  /\ Len(t) > 1 => t[1] # 48

RECURSIVE numberOf(_)
numberOf(t) ==
  IF t = <<>> THEN 0
  ELSE numberOf(SubSeq(t, 1, Len(t) - 1)) * 10 + (t[Len(t)] - 48)

isStringText(t) ==
  /\ Len(t) >= 2
  /\ t[1] = 34
  /\ t[Len(t)] = 34
  /\ \A i \in 2..(Len(t) - 1) : t[i] >= 32 /\ t[i] \notin {34, 92}

isMemberText(t) ==
  LET i == indexOf(t, <<58>>)
  IN  /\ i > 0
      /\ isStringText(SubSeq(t, 1, i - 1))
      /\ \/ isStringText(SubSeq(t, i + 1, Len(t)))
         \/ isDigits(SubSeq(t, i + 1, Len(t)))

memberOf(t) ==
  LET i == indexOf(t, <<58>>)
      v == SubSeq(t, i + 1, Len(t))
  IN  <<SubSeq(t, 2, i - 2),
        IF isDigits(v) THEN Num(numberOf(v)) ELSE Str(SubSeq(v, 2, Len(v) - 1))>>

SyntaxError == [thrown |-> TRUE, kind |-> "none", map |-> <<>>, n |-> 0]

JSONparse(t) ==
  IF isDigits(t) THEN [thrown |-> FALSE, kind |-> "number", map |-> <<>>, n |-> numberOf(t)]
  ELSE IF t = <<91, 93>> THEN [thrown |-> FALSE, kind |-> "array", map |-> <<>>, n |-> 0]
  ELSE IF Len(t) >= 2 /\ t[1] = 123 /\ t[Len(t)] = 125
    THEN LET inner == SubSeq(t, 2, Len(t) - 1)
             pieces == IF inner = <<>> THEN <<>> ELSE splitOn(inner, 44)
         IN  IF /\ \A i \in 1..Len(pieces) : isMemberText(pieces[i])
                /\ \A i, j \in 1..Len(pieces) :
                     i # j => memberOf(pieces[i])[1] # memberOf(pieces[j])[1]
               THEN [thrown |-> FALSE, kind |-> "map",
                     map |-> [i \in 1..Len(pieces) |-> memberOf(pieces[i])], n |-> 0]
               ELSE SyntaxError
  ELSE SyntaxError

\* base64.replace(/\+/g, "-").replace(/\//g, "_").replace(/=+$/g, "")
base64url(base64) == stripPadding(replaceAll(replaceAll(base64, 43, 45), 47, 95))

\* drive-utils encodeUploadState: base64url of the state's JSON, without
\* padding; what btoa throws is thrown
encodeUploadState(state) ==
  LET json == JSONstringify(state)
      base64 == btoa(json)
  IN  IF base64.thrown THEN [thrown |-> TRUE, token |-> <<>>]
      ELSE [thrown |-> FALSE, token |-> base64url(base64.value)]

\* drive-utils decodeUploadState: what atob or JSON.parse throws is thrown,
\* whatever JSON.parse returns is returned
decodeUploadState(token) ==
  LET padded == replaceAll(replaceAll(token, 45, 43), 95, 47)
      padLength == IF Len(padded) % 4 = 0 THEN 0 ELSE 4 - (Len(padded) % 4)
      base64 == padded \o [i \in 1..padLength |-> 61]
      json == atob(base64)
  IN  IF json.thrown THEN SyntaxError ELSE JSONparse(json.value)

(* ------------------------------ putObject ------------------------------ *)
\* the threshold up to which putObject uploads in one request
singleShotLimit(ty) == IF ty = "gdrive" THEN GoogleSingleShot ELSE OneDriveSingleShot

\* the chunkSize putObject passes to initiateMultipartUpload
requestedChunkSize(ty, chunk_size) ==
  IF ty = "gdrive" THEN DefaultChunk
  ELSE IF chunk_size # 0 THEN chunk_size ELSE DefaultChunk

\* initiateMultipartUpload: the upload id
initiateMultipartUpload(ty, size, chunkSize) ==
  encodeUploadState(<<
    <<utf16("provider"), Str(utf16(ty))>>,
    <<utf16("chunkSize"), Num(IF chunkSize # 0 THEN chunkSize ELSE DefaultChunk)>>,
    <<utf16("fileSize"), Num(size)>> >>).token

\* a slice that takes all that is left
sliceEndAll(offset, chunkSize, totalSize) == totalSize

\* Math.min(offset + chunkSize, totalSize)
sliceEnd(offset, chunkSize, totalSize) ==
  IF offset + chunkSize < totalSize THEN offset + chunkSize ELSE totalSize

\* an uploadPart whose range ends one byte too far
uploadPartEndExclusive(uploadId, partNumber, length) ==
  LET state == decodeUploadState(uploadId).map
      start == (partNumber - 1) * field(state, utf16("chunkSize")).n
  IN  [partNumber |-> partNumber, length |-> length, start |-> start,
       end |-> start + length, fileSize |-> field(state, utf16("fileSize")).n]

\* uploadPart: the request it sends, from the upload id, the part number
\* and the chunk's length
uploadPart(uploadId, partNumber, length) ==
  LET state == decodeUploadState(uploadId).map
      start == (partNumber - 1) * field(state, utf16("chunkSize")).n
  IN  [partNumber |-> partNumber, length |-> length, start |-> start,
       end |-> start + length - 1, fileSize |-> field(state, utf16("fileSize")).n]

PutInit ==
  /\ client = 0
  /\ now = Now0
  /\ issued = 1
  /\ pc = "idle"
  /\ sent = <<>>
  /\ refreshes = 0
  /\ oauth = 0
  /\ nAuthFail = 0
  /\ depth = 0
  /\ result = "none"
  /\ env = 0
  /\ db = 0
  /\ fs = {}
  /\ request = 0
  /\ response = 0
  /\ events = <<>>
  /\ outcomes = <<>>
  /\ listing = [pc |-> "idle"]
  /\ call = [fn |-> "none"]
  /\ race = <<>>
  /\ collect = <<>>
  /\ \E ty \in {"gdrive", "onedrive"}, size \in 1..MaxSize, chunk_size \in 0..MaxChunk :
       /\ ty = "gdrive" => chunk_size = 0
       /\ upload = [pc |-> "called", type |-> ty, chunk_size |-> chunk_size,
                    size |-> size, uploadId |-> <<>>, offset |-> 0, partNumber |-> 0,
                    calls |-> <<>>, completed |-> 0, singleShots |-> 0]

\* putObject up to its first await: the single-shot request, or the
\* session and the loop's locals
putObjectCalled ==
  /\ upload.pc = "called"
  /\ IF upload.size <= singleShotLimit(upload.type)
       THEN upload' = [upload EXCEPT !.pc = "singleShot", !.singleShots = 1]
       ELSE \E ok \in BOOLEAN :
              upload' = IF ok
                THEN [upload EXCEPT
                        !.pc = "loop",
                        !.uploadId = initiateMultipartUpload(upload.type, upload.size,
                                       requestedChunkSize(upload.type, upload.chunk_size)),
                        !.partNumber = 1,
                        !.offset = 0]
                ELSE [upload EXCEPT !.pc = "thrown"]
  /\ UNCHANGED <<adapterVars, bridgeVars, listing, call, race, collect>>

\* the single-shot request is answered
singleShotAnswered ==
  /\ upload.pc = "singleShot"
  /\ \E ok \in BOOLEAN :
       upload' = [upload EXCEPT !.pc = IF ok THEN "returned" ELSE "thrown"]
  /\ UNCHANGED <<adapterVars, bridgeVars, listing, call, race, collect>>

\* one turn of the while loop, up to the await of uploadPart
uploadPartCalled ==
  /\ upload.pc = "loop"
  /\ upload.offset < upload.size
  /\ LET chunkSize == field(decodeUploadState(upload.uploadId).map, utf16("chunkSize")).n
         end == sliceEnd(upload.offset, chunkSize, upload.size)
     IN  upload' = [upload EXCEPT
                      !.pc = "uploadPart",
                      !.calls = Append(@, uploadPart(upload.uploadId, upload.partNumber,
                                                     end - upload.offset))]
  /\ UNCHANGED <<adapterVars, bridgeVars, listing, call, race, collect>>

\* the provider answers the part: the loop goes on, or uploadPart throws
uploadPartAnswered ==
  /\ upload.pc = "uploadPart"
  /\ \E ok \in BOOLEAN :
       upload' = IF ok
         THEN [upload EXCEPT
                 !.pc = "loop",
                 !.completed = @ + 1,
                 !.offset = @ + upload.calls[Len(upload.calls)].length,
                 !.partNumber = @ + 1]
         ELSE [upload EXCEPT !.pc = "thrown"]
  /\ UNCHANGED <<adapterVars, bridgeVars, listing, call, race, collect>>

\* the while loop ends and putObject returns
putObjectReturns ==
  /\ upload.pc = "loop"
  /\ ~(upload.offset < upload.size)
  /\ upload' = [upload EXCEPT !.pc = "returned"]
  /\ UNCHANGED <<adapterVars, bridgeVars, listing, call, race, collect>>

PutNext ==
  \/ putObjectCalled
  \/ singleShotAnswered
  \/ uploadPartCalled
  \/ uploadPartAnswered
  \/ putObjectReturns

PutSpec == PutInit /\ [][PutNext]_vars

(* ------------------- helpers and methods called alone ------------------ *)
\* characters of the paths given to the path helpers: the separator, a
\* letter and a blank
PathChars == {"/", "a", " "}

RECURSIVE StringsUpTo(_, _)
StringsUpTo(chars, n) ==
  IF n = 0 THEN {<<>>}
  ELSE LET shorter == StringsUpTo(chars, n - 1)
       IN shorter \cup {Append(s, ch) : s \in {t \in shorter : Len(t) = n - 1}, ch \in chars}

PathStrings == StringsUpTo(PathChars, MaxLen)

\* String.prototype.trim on the characters above
RECURSIVE trim(_)
trim(s) ==
  IF s = <<>> THEN s
  ELSE IF Head(s) = " " THEN trim(Tail(s))
  ELSE IF s[Len(s)] = " " THEN trim(SubSeq(s, 1, Len(s) - 1))
  ELSE s

normalizeRootPath(rootPath) ==
  IF rootPath = <<>> THEN <<"/">>
  ELSE LET trimmed == trim(rootPath)
           rooted == IF startsWith(trimmed, <<"/">>) THEN trimmed ELSE <<"/">> \o trimmed
       IN IF Len(rooted) > 1 /\ endsWith(rooted, <<"/">>)
            THEN SubSeq(rooted, 1, Len(rooted) - 1)
            ELSE rooted

joinRootPath(rootPath, path) ==
  LET root == normalizeRootPath(rootPath)
      cleanPath == IF path = <<>> THEN <<>>
                   ELSE IF startsWith(path, <<"/">>) THEN path ELSE <<"/">> \o path
  IN IF path = <<>> \/ cleanPath = <<"/">> THEN root
     ELSE IF root = <<"/">> THEN cleanPath
     ELSE root \o cleanPath

\* the upload states given to encodeUploadState: one attribute k whose value
\* is a number or a string over "a", U+00FB and U+00FF (inside Latin-1; their
\* bytes give the base64 characters "+" and "/") and U+4E2D (outside it), or
\* that and a second attribute
ValueChars == {97, 251, 255, 20013}

Values == {Str(s) : s \in StringsUpTo(ValueChars, MaxValueLen)} \cup {Num(0), Num(7), Num(10)}

UploadStates ==
  {<<>>} \cup {<< <<<<107>>, v>> >> : v \in Values}
         \cup {<< <<<<107>>, v>>, <<<<109>>, Num(1)>> >> : v \in Values}

\* the token of a JSON text
tokenOf(json) == base64url(btoa(json).value)

\* the tokens given to decodeUploadState: outputs of encodeUploadState, the
\* tokens of JSON texts that are no attribute map, and what becomes of such
\* tokens when they are cut short, padded or changed in one character
Outputs == {encodeUploadState(state).token : state \in {s \in UploadStates : ~encodeUploadState(s).thrown}}

Sound == Outputs \cup {tokenOf(<<55>>), tokenOf(<<91, 93>>)}

Truncated == UNION {{SubSeq(t, 1, k) : k \in 0..(Len(t) - 1)} : t \in Sound}

Padded == {t \o <<61>> : t \in Sound} \cup {t \o <<61, 61>> : t \in Sound}

Mutated ==
  UNION {{[t EXCEPT ![i] = c] : i \in 1..Len(t), c \in {65, 43, 33}} : t \in Sound}

Tokens == Sound \cup Truncated \cup Padded \cup Mutated

\* the adapters refreshToken is called on: any configuration and session
\* state, with either dirty flag already set or not
DirtyClients ==
  {[c EXCEPT !.savingChanged = sd, !.configChanged = cd] :
     c \in Clients, sd \in BOOLEAN, cd \in BOOLEAN}

\* the adapters persistClientState is called with: the four stateful
\* adapters in any state, and the adapters built for the other backends
PersistClients ==
  DirtyClients \cup {createClient(st) : st \in {x \in Storages : x.type \notin OAuthTypes}}

\* the environments validateWebdavAuth is called with: those of the bridge,
\* and ones whose admin password holds a colon
AuthEnvs ==
  Envs \cup [WEBDAV_ENABLED : {TRUE}, WEBDAV_USERNAME : {<<>>, U("w")},
             WEBDAV_PASSWORD : {<<>>, U("q")}, ADMIN_USERNAME : {U("u")},
             ADMIN_PASSWORD : {<<"p", ":", "x">>}]

\* the multipart lifecycle of the Baidu adapter: what each method does with
\* its arguments, and how many requests it sends
BaiduMultipartMethods ==
  {"initiateMultipartUpload", "uploadPart", "completeMultipartUpload", "abortMultipartUpload"}

BaiduUnsupported == "BaiduYun does not support multipart upload in this mode"

BaiduMultipart(method, key, uploadId) ==
  CASE method = "initiateMultipartUpload" ->
         [thrown |-> TRUE, message |-> BaiduUnsupported, fetches |-> 0]
    [] method = "uploadPart" ->
         [thrown |-> TRUE, message |-> BaiduUnsupported, fetches |-> 0]
    [] method = "completeMultipartUpload" ->
         [thrown |-> FALSE, message |-> "", fetches |-> 0]
    [] method = "abortMultipartUpload" ->
         [thrown |-> FALSE, message |-> "", fetches |-> 0]

UploadIds == {<<>>, <<"a">>}

(* ------------------------------- calls --------------------------------- *)
CallInit ==
  /\ client = 0
  /\ now = Now0
  /\ issued = 1
  /\ pc = "idle"
  /\ sent = <<>>
  /\ refreshes = 0
  /\ oauth = 0
  /\ nAuthFail = 0
  /\ depth = 0
  /\ result = "none"
  /\ env = 0
  /\ db = 0
  /\ fs = {}
  /\ request = 0
  /\ response = 0
  /\ events = <<>>
  /\ outcomes = <<>>
  /\ listing = [pc |-> "idle"]
  /\ upload = [pc |-> "idle"]
  /\ call = [fn |-> "none"]
  /\ race = <<>>
  /\ collect = <<>>

\* one of the four multipart methods of the Baidu adapter is called
baiduMultipartCalled ==
  /\ call.fn = "none"
  /\ \E method \in BaiduMultipartMethods, key \in PathStrings, uploadId \in UploadIds :
       call' = [fn |-> method, key |-> key, uploadId |-> uploadId,
                out |-> BaiduMultipart(method, key, uploadId)]
  /\ UNCHANGED <<adapterVars, bridgeVars, listing, upload, race, collect>>

\* stripLeadingSlash(path) is called
stripLeadingSlashCalled ==
  /\ call.fn = "none"
  /\ \E path \in PathStrings :
       call' = [fn |-> "stripLeadingSlash", path |-> path, out |-> stripLeadingSlash(path)]
  /\ UNCHANGED <<adapterVars, bridgeVars, listing, upload, race, collect>>

\* stripTrailingSlash(path) is called
stripTrailingSlashCalled ==
  /\ call.fn = "none"
  /\ \E path \in PathStrings :
       call' = [fn |-> "stripTrailingSlash", path |-> path, out |-> stripTrailingSlash(path)]
  /\ UNCHANGED <<adapterVars, bridgeVars, listing, upload, race, collect>>

\* normalizeRootPath(rootPath) is called
normalizeRootPathCalled ==
  /\ call.fn = "none"
  /\ \E rootPath \in PathStrings :
       call' = [fn |-> "normalizeRootPath", rootPath |-> rootPath,
                out |-> normalizeRootPath(rootPath)]
  /\ UNCHANGED <<adapterVars, bridgeVars, listing, upload, race, collect>>

\* joinRootPath(rootPath, path) is called
joinRootPathCalled ==
  /\ call.fn = "none"
  /\ \E rootPath \in PathStrings, path \in PathStrings :
       call' = [fn |-> "joinRootPath", rootPath |-> rootPath, path |-> path,
                out |-> joinRootPath(rootPath, path)]
  /\ UNCHANGED <<adapterVars, bridgeVars, listing, upload, race, collect>>

\* encodeUploadState(state) is called
encodeUploadStateCalled ==
  /\ call.fn = "none"
  /\ \E state \in UploadStates :
       call' = [fn |-> "encodeUploadState", state |-> state,
                out |-> encodeUploadState(state)]
  /\ UNCHANGED <<adapterVars, bridgeVars, listing, upload, race, collect>>

\* decodeUploadState(token) is called
decodeUploadStateCalled ==
  /\ call.fn = "none"
  /\ \E token \in Tokens :
       call' = [fn |-> "decodeUploadState", token |-> token,
                out |-> decodeUploadState(token)]
  /\ UNCHANGED <<adapterVars, bridgeVars, listing, upload, race, collect>>

\* refreshToken() is called on an adapter and the token endpoint answers
refreshTokenCalled ==
  /\ call.fn = "none"
  /\ \E c \in DirtyClients, r \in RefreshResponses(1) :
       call' = [fn |-> "refreshToken", client |-> c, response |-> r,
                out |-> refreshToken(c, r, now)]
  /\ UNCHANGED <<adapterVars, bridgeVars, listing, upload, race, collect>>

\* persistClientState(client, db, storageId) is called
persistClientStateCalled ==
  /\ call.fn = "none"
  /\ \E c \in PersistClients, storeFails \in BOOLEAN :
       \E storage \in {st \in Storages : st.type = c.type} :
         call' = [fn |-> "persistClientState", client |-> c, storage |-> storage,
                  out |-> persistClientState(c, storage, storeFails)]
  /\ UNCHANGED <<adapterVars, bridgeVars, listing, upload, race, collect>>

\* validateWebdavAuth(request, env) is called
validateWebdavAuthCalled ==
  /\ call.fn = "none"
  /\ \E auth \in Auths, e \in AuthEnvs :
       call' = [fn |-> "validateWebdavAuth", auth |-> auth, env |-> e,
                out |-> validateWebdavAuth(auth, e)]
  /\ UNCHANGED <<adapterVars, bridgeVars, listing, upload, race, collect>>

\* the keys of the calls that resolve a path: the requested paths and a
\* key whose parent folder is missing as well
Keys == Paths \cup {<<"zz", "/", "b">>}

Resolving ==
  {"headObject", "listObjects", "getObject", "getSignedUrl", "renameObject",
   "moveObject", "copyObject"}

Returns(isNull) == [thrown |-> FALSE, isNull |-> isNull]
Throws == [thrown |-> TRUE, isNull |-> FALSE]

\* headObject of the four OAuth adapters.  Google and Aliyun walk the path
\* with findFileIdByPath and return null for an unresolved one; OneDrive
\* asks the provider for the item through request(), which throws on every
\* response that is not ok (the provider's 404 for a missing item) so that
\* its null test sees folders only; Baidu lists the parent directory
\* through request(), which throws on the provider's errno for a missing
\* directory, and returns null when the listing lacks the name.
headObject(ty, drive, key) ==
  LET t == findFileIdByPath(drive, key)
      parent == findFileIdByPath(drive, parentPathOf(stripLeadingSlash(key)))
  IN  CASE ty = "onedrive" ->
             IF ~t.found THEN Throws ELSE Returns(isFolder(drive, t.id))
        [] ty = "baiduyun" ->
             IF stripLeadingSlash(key) = <<>> THEN Returns(TRUE)
             ELSE IF ~parent.found THEN Throws
             ELSE Returns(~t.found \/ isFolder(drive, t.id))
        [] OTHER -> Returns(~t.found)

\* getSignedUrl and renameObject: the key must resolve
getSignedUrl(drive, key) ==
  IF findFileIdByPath(drive, key).found THEN Ok(drive) ELSE Fail(drive)

renameObject(drive, path) ==
  IF findFileIdByPath(drive, path).found THEN Ok(drive) ELSE Fail(drive)

\* one call of a method that resolves key on the drive
resolve(ty, method, key, drive) ==
  CASE method = "headObject" -> headObject(ty, drive, key)
    [] method = "getSignedUrl" ->
         [thrown |-> getSignedUrl(drive, key).thrown, isNull |-> FALSE]
    [] method = "renameObject" ->
         [thrown |-> renameObject(drive, key).thrown, isNull |-> FALSE]
    [] method = "moveObject" ->
         [thrown |-> operation(ty, method, key, <<"sub">>, drive).thrown, isNull |-> FALSE]
    [] OTHER ->
         [thrown |-> operation(ty, method, key, <<"sub", "/", "b">>, drive).thrown,
          isNull |-> FALSE]

resolveCalled ==
  /\ call.fn = "none"
  /\ \E ty \in OAuthTypes, method \in Resolving, key \in Keys :
       call' = [fn |-> "resolve", type |-> ty, method |-> method, key |-> key,
                out |-> resolve(ty, method, key, Drive0)]
  /\ UNCHANGED <<adapterVars, bridgeVars, listing, upload, race, collect>>

\* the keys of the calls that resolve a parent: parents that resolve (the
\* root, sub/) and parents whose first or second segment is missing
ParentKeys ==
  {<<"n">>, <<"sub", "/", "n">>, <<"sub", "/">>, <<"zz", "/", "n">>,
   <<"sub", "/", "zz", "/", "n">>, <<"zz", "/", "sub", "/", "n">>}

ParentWalkers == {"gdrive", "alicloud"}

Lookup(ps) == [kind |-> "lookup", what |-> ps]
Mutation(what) == [kind |-> "mutation", what |-> <<what>>]

\* findFileIdByPath, the loop over parts from segment k on: one lookup of
\* the segment under the folder found so far, and the walk ends with the
\* first segment the lookup does not find
RECURSIVE walk(_, _, _)
walk(drive, ps, k) ==
  IF k > Len(ps) THEN <<>>
  ELSE <<Lookup(SubSeq(ps, 1, k))>>
         \o (IF exists(drive, SubSeq(ps, 1, k)) THEN walk(drive, ps, k + 1) ELSE <<>>)

\* a resolution that creates the folder it does not find
parentIdOrCreated(drive, parentPath) ==
  [isNull |-> FALSE,
   requests |-> walk(drive, parts(stripLeadingSlash(parentPath)), 1)
                  \o (IF findFileIdByPath(drive, parentPath).found THEN <<>>
                      ELSE <<Mutation("folder")>>)]

\* const parentId = await this.findFileIdByPath(parentPath), with the
\* requests the walk has issued
parentId(drive, parentPath) ==
  [isNull |-> ~findFileIdByPath(drive, parentPath).found,
   requests |-> walk(drive, parts(stripLeadingSlash(parentPath)), 1)]

\* the provider requests that follow a resolved parent
mutations(ty, method) ==
  CASE method = "putObject" /\ ty = "gdrive" -> <<Mutation("upload")>>
    [] method = "putObject" /\ ty = "alicloud" ->
         <<Mutation("create"), Mutation("put"), Mutation("complete")>>
    [] method = "initiateMultipartUpload" /\ ty = "gdrive" -> <<Mutation("session")>>
    [] method = "initiateMultipartUpload" /\ ty = "alicloud" -> <<Mutation("create")>>
    [] OTHER -> <<Mutation("folder")>>

\* putObject, initiateMultipartUpload and createFolder of the Google and
\* Aliyun adapters up to their first provider answer: the parent is
\* resolved, a null parent is thrown, otherwise the requests are sent
underParent(ty, method, key, drive) ==
  LET n == IF method = "createFolder" THEN stripTrailingSlash(stripLeadingSlash(key))
           ELSE stripLeadingSlash(key)
      parent == parentId(drive, parentPathOf(n))
  IN  IF parent.isNull
        THEN [thrown |-> TRUE, requests |-> parent.requests]
      ELSE [thrown |-> FALSE, requests |-> parent.requests \o mutations(ty, method)]

underParentCalled ==
  /\ call.fn = "none"
  /\ \E ty \in ParentWalkers, key \in ParentKeys,
        method \in {"putObject", "initiateMultipartUpload", "createFolder"} :
       call' = [fn |-> "underParent", type |-> ty, method |-> method, key |-> key,
                out |-> underParent(ty, method, key, Drive0)]
  /\ UNCHANGED <<adapterVars, bridgeVars, listing, upload, race, collect>>

\* the answers of the provider to one slice upload: the fields errno and
\* error_code of the JSON body, each absent (<<>>), 0 or a non-zero code
Codes == {<<>>, <<0>>, <<2>>}
SliceAnswers == [errno : Codes, error_code : Codes]

\* the answers to precreate: return_type and the uploadid, absent or not
Precreates == [return_type : {1, 2}, uploadid : {<<>>, <<"u">>}]

\* blockList of putObject: one digest per slice of sliceSize bytes
blockCount(fileSize, sliceSize) ==
  IF fileSize = 0 THEN 0 ELSE ((fileSize - 1) \div sliceSize) + 1

\* a slice test that throws whenever either field is not 0
sliceThrowsOnEither(answer) == answer.errno # <<0>> \/ answer.error_code # <<0>>

\* if (result.errno !== 0 && result.error_code !== 0) throw
sliceThrows(answer) == answer.errno # <<0>> /\ answer.error_code # <<0>>

\* the loop over partseq from slice k on, then the create call
RECURSIVE slices(_, _, _, _)
slices(k, n, uploadid, answers) ==
  IF k = n THEN [thrown |-> FALSE, requests |-> <<[op |-> "create", uploadid |-> uploadid]>>]
  ELSE LET upl == [op |-> "slice", partseq |-> k, uploadid |-> uploadid]
           rest == slices(k + 1, n, uploadid, answers)
       IN  IF sliceThrows(answers[k + 1])
             THEN [thrown |-> TRUE, requests |-> <<upl>>]
           ELSE [thrown |-> rest.thrown, requests |-> <<upl>> \o rest.requests]

\* BaiduYunClient.putObject for a body of fileSize bytes, the provider
\* answering precreate with pre and slice k with answers[k + 1]
baiduPutObject(fileSize, pre, answers) ==
  LET n == blockCount(fileSize, BaiduSlice)
      precreate == [op |-> "precreate", blocks |-> n]
      rest == slices(0, n, pre.uploadid, answers)
  IN  IF pre.return_type = 2 THEN [thrown |-> FALSE, requests |-> <<precreate>>]
      ELSE IF pre.uploadid = <<>> THEN [thrown |-> TRUE, requests |-> <<precreate>>]
      ELSE [thrown |-> rest.thrown, requests |-> <<precreate>> \o rest.requests]

\* a getSliceSize that takes the configured size as it is
getSliceSizeUnclamped(vip_type, custom) ==
  IF custom > 0 THEN custom
  ELSE IF vip_type = 2 THEN svipSlice
  ELSE IF vip_type = 1 THEN vipSlice
  ELSE defaultSlice

\* BaiduYunClient.getSliceSize, in MiB: vip_type is saving.vip_type || 0 and
\* custom is Number(config.custom_upload_part_size || 0)
getSliceSize(vip_type, custom) ==
  LET min == IF custom < svipSlice THEN custom ELSE svipSlice
  IN  IF custom > 0 THEN (IF defaultSlice > min THEN defaultSlice ELSE min)
      ELSE IF vip_type = 2 THEN svipSlice
      ELSE IF vip_type = 1 THEN vipSlice
      ELSE defaultSlice

\* the account tiers and the configured sizes putObject is called with
VipTypes == {0, 1, 2, 3}

Customs == {-1, 0, 1, 4, 8, 32, 40}

\* putObject of an adapter with that tier and configured size for a body of
\* fileSize MiB, every slice being accepted: the slice size, the digests of
\* blockList, and the requests
baiduSliced(vip_type, custom, fileSize, pre) ==
  LET sliceSize == getSliceSize(vip_type, custom)
      n == blockCount(fileSize, sliceSize)
      precreate == [op |-> "precreate", blocks |-> n]
      rest == slices(0, n, pre.uploadid, [k \in 1..n |-> [errno |-> <<0>>, error_code |-> <<0>>]])
  IN  [sliceSize |-> sliceSize,
       requests |-> IF pre.return_type = 2 \/ pre.uploadid = <<>> THEN <<precreate>>
                    ELSE <<precreate>> \o rest.requests]

baiduSlicedCalled ==
  /\ call.fn = "none"
  /\ \E vip_type \in VipTypes, custom \in Customs, fileSize \in 0..MaxBaiduMiB,
        pre \in Precreates :
       call' = [fn |-> "baiduSliced", vip_type |-> vip_type, custom |-> custom,
                fileSize |-> fileSize, pre |-> pre,
                out |-> baiduSliced(vip_type, custom, fileSize, pre)]
  /\ UNCHANGED <<adapterVars, bridgeVars, listing, upload, race, collect>>

baiduPutObjectCalled ==
  /\ call.fn = "none"
  /\ \E fileSize \in 0..MaxBaiduSize, pre \in Precreates :
       \E answers \in [1..blockCount(fileSize, BaiduSlice) -> SliceAnswers] :
         call' = [fn |-> "baiduPutObject", fileSize |-> fileSize, pre |-> pre,
                  answers |-> answers, out |-> baiduPutObject(fileSize, pre, answers)]
  /\ UNCHANGED <<adapterVars, bridgeVars, listing, upload, race, collect>>

\* Aliyun multipart.  The provider's answer to the create call is
\* [file_id, upload_id, listed, count, host]: upload_id absent (<<>>) or
\* not, part_info_list absent or holding the parts 1..count, each with an
\* upload URL on one of two hosts.  In the upload state the array partInfo
\* is written as one member per part, part_number k under the key "p<k>"
\* with its upload_url as value.
partKey(k) == <<112>> \o digits(k)
uploadUrl(host, k) == <<104 + host, 47>> \o digits(k)

\* a partCount that rounds down
partCountFloor(fileSize, chunkSize) ==
  IF fileSize \div chunkSize > 1 THEN fileSize \div chunkSize ELSE 1

\* Math.max(1, Math.ceil(fileSize / chunkSize))
partCount(fileSize, chunkSize) ==
  LET c == IF fileSize % chunkSize = 0 THEN fileSize \div chunkSize
           ELSE (fileSize \div chunkSize) + 1
  IN  IF c > 1 THEN c ELSE 1

AliyunCreates ==
  [file_id : {<<102>>}, upload_id : {<<>>, <<115>>}, listed : BOOLEAN,
   count : 0..(MaxAliyunSize + 1), host : {0, 1}]

\* AliyunDriveClient.initiateMultipartUpload once the parent is resolved:
\* the create request and, unless the session is missing, the token
aliyunInitiate(size, chunkSizeOption, create) ==
  LET chunkSize == IF chunkSizeOption # 0 THEN chunkSizeOption ELSE AliyunChunk
      n == partCount(size, chunkSize)
      sentCreate == [op |-> "create", size |-> size, parts |-> [k \in 1..n |-> k]]
      state == <<<<utf16("provider"), Str(utf16("alicloud"))>>,
                 <<utf16("fileId"), Str(create.file_id)>>,
                 <<utf16("uploadId"), Str(create.upload_id)>>>>
               \o [k \in 1..create.count |-> <<partKey(k), Str(uploadUrl(create.host, k))>>]
               \o <<<<utf16("chunkSize"), Num(chunkSize)>>,
                     <<utf16("fileSize"), Num(size)>>>>
      token == encodeUploadState(state)
  IN  IF create.upload_id = <<>> \/ ~create.listed \/ token.thrown
        THEN [thrown |-> TRUE, requests |-> <<sentCreate>>, token |-> <<>>]
      ELSE [thrown |-> FALSE, requests |-> <<sentCreate>>, token |-> token.token]

\* AliyunDriveClient.uploadPart: the PUT to the URL the token holds for the
\* part, answered with status
aliyunUploadPart(uploadId, partNumber, status) ==
  LET state == decodeUploadState(uploadId).map
      found == \E i \in 1..Len(state) : state[i][1] = partKey(partNumber)
  IN  IF ~found THEN [thrown |-> TRUE, requests |-> <<>>]
      ELSE [thrown |-> status \notin {200, 409},
            requests |-> <<[op |-> "put", url |-> field(state, partKey(partNumber)).s]>>]

\* AliyunDriveClient.completeMultipartUpload
aliyunComplete(uploadId) ==
  LET state == decodeUploadState(uploadId).map
  IN  [thrown |-> FALSE,
       requests |-> <<[op |-> "complete", file_id |-> field(state, utf16("fileId")).s,
                       upload_id |-> field(state, utf16("uploadId")).s]>>]

\* initiateMultipartUpload, then uploadPart or completeMultipartUpload with
\* the token it returned
aliyunMultipartCalled ==
  /\ call.fn = "none"
  /\ \E size \in 0..MaxAliyunSize, chunkSizeOption \in 0..MaxChunk, create \in AliyunCreates :
       LET init == aliyunInitiate(size, chunkSizeOption, create)
       IN  /\ create.count <= partCount(size, IF chunkSizeOption # 0 THEN chunkSizeOption
                                               ELSE AliyunChunk)
           /\ \/ call' = [fn |-> "aliyunMultipart", method |-> "initiateMultipartUpload",
                          size |-> size, chunkSize |-> chunkSizeOption, create |-> create,
                          init |-> init, partNumber |-> 0, out |-> init]
              \/ /\ ~init.thrown
                 /\ \E partNumber \in 0..(create.count + 1), status \in {200, 409, 500} :
                      call' = [fn |-> "aliyunMultipart", method |-> "uploadPart",
                               size |-> size, chunkSize |-> chunkSizeOption,
                               create |-> create, init |-> init, partNumber |-> partNumber,
                               out |-> aliyunUploadPart(init.token, partNumber, status)]
              \/ /\ ~init.thrown
                 /\ call' = [fn |-> "aliyunMultipart", method |-> "completeMultipartUpload",
                             size |-> size, chunkSize |-> chunkSizeOption, create |-> create,
                             init |-> init, partNumber |-> 0,
                             out |-> aliyunComplete(init.token)]
  /\ UNCHANGED <<adapterVars, bridgeVars, listing, upload, race, collect>>

\* md5Hex.  A 32-bit number is the pair <<high half, low half>> of its
\* two 16-bit halves, its value taken modulo 2^32; the bitwise operators
\* work on the halves bit by bit.
and16(x, y) ==
  LET b(k) == IF (x \div (2 ^ k)) % 2 = 1 /\ (y \div (2 ^ k)) % 2 = 1 THEN 2 ^ k ELSE 0
  IN  (((b(0) + b(1)) + (b(2) + b(3))) + ((b(4) + b(5)) + (b(6) + b(7))))
      + (((b(8) + b(9)) + (b(10) + b(11))) + ((b(12) + b(13)) + (b(14) + b(15))))

or16(x, y) ==
  LET b(k) == IF (x \div (2 ^ k)) % 2 = 1 \/ (y \div (2 ^ k)) % 2 = 1 THEN 2 ^ k ELSE 0
  IN  (((b(0) + b(1)) + (b(2) + b(3))) + ((b(4) + b(5)) + (b(6) + b(7))))
      + (((b(8) + b(9)) + (b(10) + b(11))) + ((b(12) + b(13)) + (b(14) + b(15))))

xor16(x, y) ==
  LET b(k) == IF (x \div (2 ^ k)) % 2 # (y \div (2 ^ k)) % 2 THEN 2 ^ k ELSE 0
  IN  (((b(0) + b(1)) + (b(2) + b(3))) + ((b(4) + b(5)) + (b(6) + b(7))))
      + (((b(8) + b(9)) + (b(10) + b(11))) + ((b(12) + b(13)) + (b(14) + b(15))))

\* (the operands are evaluated before the halves are combined)
bitAnd(a, b) == <<a, b, <<and16(a[1], b[1]), and16(a[2], b[2])>>>>[3]
bitOr(a, b) == <<a, b, <<or16(a[1], b[1]), or16(a[2], b[2])>>>>[3]
bitXor(a, b) == <<a, b, <<xor16(a[1], b[1]), xor16(a[2], b[2])>>>>[3]
bitNot(a) == <<65535 - a[1], 65535 - a[2]>>

\* an addition that loses the carry out of the low half
add32NoCarry(a, b) == <<(a[1] + b[1]) % 65536, (a[2] + b[2]) % 65536>>

\* (a + b) & 0xffffffff
add32(a, b) ==
  LET lo == a[2] + b[2]
      hi == a[1] + b[1] + (lo \div 65536)
  IN  <<hi % 65536, lo % 65536>>

\* (value << shift) | (value >>> (32 - shift)), for 0 < shift < 32
rol(value, shift) ==
  LET v == IF shift >= 16 THEN <<value[2], value[1]>> ELSE value
      p == 2 ^ (shift % 16)
      q == 2 ^ (16 - (shift % 16))
  IN  <<((v[1] * p) % 65536) + (v[2] \div q), ((v[2] * p) % 65536) + (v[1] \div q)>>

\* add32(rol(add32(add32(a, q), add32(x, t)), s), b), the sums taken one
\* after the other
cmn(q, a, b, x, s, t) ==
  LET aq == add32(a, q)
      xt == add32(x, t)
      sum == add32(aq, xt)
      rolled == rol(sum, s)
  IN  <<q, aq, xt, sum, rolled, add32(rolled, b)>>[6]

ff(a, b, c, d, x, s, t) == cmn(bitOr(bitAnd(b, c), bitAnd(bitNot(b), d)), a, b, x, s, t)
gg(a, b, c, d, x, s, t) == cmn(bitOr(bitAnd(b, d), bitAnd(c, bitNot(d))), a, b, x, s, t)
hh(a, b, c, d, x, s, t) == cmn(bitXor(bitXor(b, c), d), a, b, x, s, t)
ii(a, b, c, d, x, s, t) == cmn(bitXor(c, bitOr(b, bitNot(d))), a, b, x, s, t)

HexDigits ==
  <<"0", "1", "2", "3", "4", "5", "6", "7", "8", "9", "a", "b", "c", "d", "e", "f">>

\* byte.toString(16).padStart(2, "0")
hexByte(byte) == <<HexDigits[(byte \div 16) + 1], HexDigits[(byte % 16) + 1]>>

\* toHex: the four bytes of num, the lowest first
toHex(num) ==
  hexByte(num[2] % 256) \o hexByte(num[2] \div 256)
    \o hexByte(num[1] % 256) \o hexByte(num[1] \div 256)

\* the 64 assignments of one turn of the loop of md5Hex, in their order:
\* the function called, the index of the word, the shift and the constant
Steps ==
  <<[f |-> "ff", x |-> 0, s |-> 7, t |-> <<55146, 42104>>],
    [f |-> "ff", x |-> 1, s |-> 12, t |-> <<59591, 46934>>],
    [f |-> "ff", x |-> 2, s |-> 17, t |-> <<9248, 28891>>],
    [f |-> "ff", x |-> 3, s |-> 22, t |-> <<49597, 52974>>],
    [f |-> "ff", x |-> 4, s |-> 7, t |-> <<62844, 4015>>],
    [f |-> "ff", x |-> 5, s |-> 12, t |-> <<18311, 50730>>],
    [f |-> "ff", x |-> 6, s |-> 17, t |-> <<43056, 17939>>],
    [f |-> "ff", x |-> 7, s |-> 22, t |-> <<64838, 38145>>],
    [f |-> "ff", x |-> 8, s |-> 7, t |-> <<27008, 39128>>],
    [f |-> "ff", x |-> 9, s |-> 12, t |-> <<35652, 63407>>],
    [f |-> "ff", x |-> 10, s |-> 17, t |-> <<65535, 23473>>],
    [f |-> "ff", x |-> 11, s |-> 22, t |-> <<35164, 55230>>],
    [f |-> "ff", x |-> 12, s |-> 7, t |-> <<27536, 4386>>],
    [f |-> "ff", x |-> 13, s |-> 12, t |-> <<64920, 29075>>],
    [f |-> "ff", x |-> 14, s |-> 17, t |-> <<42617, 17294>>],
    [f |-> "ff", x |-> 15, s |-> 22, t |-> <<18868, 2081>>],
    [f |-> "gg", x |-> 1, s |-> 5, t |-> <<63006, 9570>>],
    [f |-> "gg", x |-> 6, s |-> 9, t |-> <<49216, 45888>>],
    [f |-> "gg", x |-> 11, s |-> 14, t |-> <<9822, 23121>>],
    [f |-> "gg", x |-> 0, s |-> 20, t |-> <<59830, 51114>>],
    [f |-> "gg", x |-> 5, s |-> 5, t |-> <<54831, 4189>>],
    [f |-> "gg", x |-> 10, s |-> 9, t |-> <<580, 5203>>],
    [f |-> "gg", x |-> 15, s |-> 14, t |-> <<55457, 59009>>],
    [f |-> "gg", x |-> 4, s |-> 20, t |-> <<59347, 64456>>],
    [f |-> "gg", x |-> 9, s |-> 5, t |-> <<8673, 52710>>],
    [f |-> "gg", x |-> 14, s |-> 9, t |-> <<49975, 2006>>],
    [f |-> "gg", x |-> 3, s |-> 14, t |-> <<62677, 3463>>],
    [f |-> "gg", x |-> 8, s |-> 20, t |-> <<17754, 5357>>],
    [f |-> "gg", x |-> 13, s |-> 5, t |-> <<43491, 59653>>],
    [f |-> "gg", x |-> 2, s |-> 9, t |-> <<64751, 41976>>],
    [f |-> "gg", x |-> 7, s |-> 14, t |-> <<26479, 729>>],
    [f |-> "gg", x |-> 12, s |-> 20, t |-> <<36138, 19594>>],
    [f |-> "hh", x |-> 5, s |-> 4, t |-> <<65530, 14658>>],
    [f |-> "hh", x |-> 8, s |-> 11, t |-> <<34673, 63105>>],
    [f |-> "hh", x |-> 11, s |-> 16, t |-> <<28061, 24866>>],
    [f |-> "hh", x |-> 14, s |-> 23, t |-> <<64997, 14348>>],
    [f |-> "hh", x |-> 1, s |-> 4, t |-> <<42174, 59972>>],
    [f |-> "hh", x |-> 4, s |-> 11, t |-> <<19422, 53161>>],
    [f |-> "hh", x |-> 7, s |-> 16, t |-> <<63163, 19296>>],
    [f |-> "hh", x |-> 10, s |-> 23, t |-> <<48831, 48240>>],
    [f |-> "hh", x |-> 13, s |-> 4, t |-> <<10395, 32454>>],
    [f |-> "hh", x |-> 0, s |-> 11, t |-> <<60065, 10234>>],
    [f |-> "hh", x |-> 3, s |-> 16, t |-> <<54511, 12421>>],
    [f |-> "hh", x |-> 6, s |-> 23, t |-> <<1160, 7429>>],
    [f |-> "hh", x |-> 9, s |-> 4, t |-> <<55764, 53305>>],
    [f |-> "hh", x |-> 12, s |-> 11, t |-> <<59099, 39397>>],
    [f |-> "hh", x |-> 15, s |-> 16, t |-> <<8098, 31992>>],
    [f |-> "hh", x |-> 2, s |-> 23, t |-> <<50348, 22117>>],
    [f |-> "ii", x |-> 0, s |-> 6, t |-> <<62505, 8772>>],
    [f |-> "ii", x |-> 7, s |-> 10, t |-> <<17194, 65431>>],
    [f |-> "ii", x |-> 14, s |-> 15, t |-> <<43924, 9127>>],
    [f |-> "ii", x |-> 5, s |-> 21, t |-> <<64659, 41017>>],
    [f |-> "ii", x |-> 12, s |-> 6, t |-> <<25947, 22979>>],
    [f |-> "ii", x |-> 3, s |-> 10, t |-> <<36620, 52370>>],
    [f |-> "ii", x |-> 10, s |-> 15, t |-> <<65519, 62589>>],
    [f |-> "ii", x |-> 1, s |-> 21, t |-> <<34180, 24017>>],
    [f |-> "ii", x |-> 8, s |-> 6, t |-> <<28584, 32335>>],
    [f |-> "ii", x |-> 15, s |-> 10, t |-> <<65068, 59104>>],
    [f |-> "ii", x |-> 6, s |-> 15, t |-> <<41729, 17172>>],
    [f |-> "ii", x |-> 13, s |-> 21, t |-> <<19976, 4513>>],
    [f |-> "ii", x |-> 4, s |-> 6, t |-> <<63315, 32386>>],
    [f |-> "ii", x |-> 11, s |-> 10, t |-> <<48442, 62005>>],
    [f |-> "ii", x |-> 2, s |-> 15, t |-> <<10967, 53947>>],
    [f |-> "ii", x |-> 9, s |-> 21, t |-> <<60294, 54161>>]>>

\* words after the three statements that fill it: the bytes, four to a
\* word and the lowest first, 0x80 after the last byte, and the bit length
\* in word (((bitLen + 64) >>> 9) << 4) + 14
wordsOf(bytes) ==
  LET bitLen == Len(bytes) * 8
      last == (((bitLen + 64) \div 512) * 16) + 14
      byteAt(i) == IF i < Len(bytes) THEN bytes[i + 1]
                   ELSE IF i = Len(bytes) THEN 128 ELSE 0
  IN  [j \in 1..(last + 1) |->
         IF j - 1 = last THEN <<bitLen \div 65536, bitLen % 65536>>
         ELSE <<byteAt(4 * (j - 1) + 2) + 256 * byteAt(4 * (j - 1) + 3),
                byteAt(4 * (j - 1)) + 256 * byteAt(4 * (j - 1) + 1)>>]

\* words[j] || 0
wordAt(words, j) == IF j < Len(words) THEN words[j + 1] ELSE <<0, 0>>

\* the k-th assignment of the turn that starts at word i; v holds a, b, c, d
\* in the order the k-th call takes them
assignment(v, words, i, k) ==
  LET st == Steps[k]
      x == wordAt(words, i + st.x)
      new == CASE st.f = "ff" -> ff(v[1], v[2], v[3], v[4], x, st.s, st.t)
               [] st.f = "gg" -> gg(v[1], v[2], v[3], v[4], x, st.s, st.t)
               [] st.f = "hh" -> hh(v[1], v[2], v[3], v[4], x, st.s, st.t)
               [] OTHER -> ii(v[1], v[2], v[3], v[4], x, st.s, st.t)
  IN  <<v[4], new, v[2], v[3]>>

\* the n assignments from the k-th on, a quarter of them after the other:
\* the tuple has each quarter evaluated before the following one is taken up
RECURSIVE assignments(_, _, _, _, _)
assignments(v, words, i, k, n) ==
  IF n = 1 THEN assignment(v, words, i, k)
  ELSE LET q == n \div 4
           r1 == assignments(v, words, i, k, q)
           r2 == assignments(r1, words, i, k + q, q)
           r3 == assignments(r2, words, i, k + 2 * q, q)
           r4 == assignments(r3, words, i, k + 3 * q, q)
       IN  <<r1, r2, r3, r4>>[4]

\* for (let i = 0; i < words.length; i += 16)
RECURSIVE turns(_, _, _)
turns(v, words, i) ==
  IF i >= Len(words) THEN v
  ELSE LET r == assignments(v, words, i, 1, 64)
           sums == <<add32(r[1], v[1]), add32(r[2], v[2]), add32(r[3], v[3]),
                     add32(r[4], v[4])>>
       IN  <<r, sums, turns(sums, words, i + 16)>>[3]

md5Hex(bytes) ==
  LET r == turns(<<<<26437, 8961>>, <<61389, 43913>>, <<39098, 56574>>, <<4146, 21622>>>>, wordsOf(bytes), 0)
  IN  <<r, toHex(r[1]) \o toHex(r[2]) \o toHex(r[3]) \o toHex(r[4])>>[2]

MessageBytes == {97, 98, 99}
Messages == UNION {[1..n -> MessageBytes] : n \in 0..MaxMessage}

md5HexCalled ==
  /\ call.fn = "none"
  /\ \E bytes \in Messages :
       call' = [fn |-> "md5Hex", bytes |-> bytes, out |-> md5Hex(bytes)]
  /\ UNCHANGED <<adapterVars, bridgeVars, listing, upload, race, collect>>

\* completeMultipartUpload and abortMultipartUpload of the Google Drive and
\* OneDrive adapters: what the call does with its upload id, and the
\* requests it sends with fetch
SessionTypes == {"gdrive", "onedrive"}

SessionMethods == {"completeMultipartUpload", "abortMultipartUpload"}

\* state.key of a decoded value: undefined unless the value is a map that
\* has the key
hasField(state, key) ==
  /\ state.kind = "map"
  /\ \E i \in 1..Len(state.map) : state.map[i][1] = key

\* if (state.uploadUrl)
hasUploadUrl(state) ==
  /\ hasField(state, utf16("uploadUrl"))
  /\ LET v == field(state.map, utf16("uploadUrl"))
     IN  IF v.isString THEN v.s # <<>> ELSE v.n # 0

abortMultipartUpload(uploadId) ==
  LET state == decodeUploadState(uploadId)
  IN  IF state.thrown THEN [thrown |-> TRUE, fetches |-> <<>>]
      ELSE IF hasUploadUrl(state)
        THEN [thrown |-> FALSE,
              fetches |-> <<[method |-> "DELETE",
                             url |-> field(state.map, utf16("uploadUrl")).s]>>]
      ELSE [thrown |-> FALSE, fetches |-> <<>>]

completeMultipartUpload(uploadId) == [thrown |-> FALSE, fetches |-> <<>>]

sessionMultipart(method, uploadId) ==
  IF method = "completeMultipartUpload" THEN completeMultipartUpload(uploadId)
  ELSE abortMultipartUpload(uploadId)

\* the upload ids the two methods are called with: the id of an opened
\* session as initiateMultipartUpload encodes it, ids whose state has an
\* empty uploadUrl or none, the token of a number, and text that is no token
SessionUploadIds ==
  {encodeUploadState(<< <<utf16("provider"), Str(utf16(ty))>> >> \o url \o
                     << <<utf16("chunkSize"), Num(DefaultChunk)>>,
                        <<utf16("fileSize"), Num(size)>> >>).token :
     ty \in SessionTypes, size \in {0, MaxSize},
     url \in {<<>>, << <<utf16("uploadUrl"), Str(<<>>)>> >>,
              << <<utf16("uploadUrl"), Str(<<97>>)>> >>}}
  \cup {tokenOf(<<55>>), <<33>>}

\* completeMultipartUpload or abortMultipartUpload of a session adapter is
\* called
sessionMultipartCalled ==
  /\ call.fn = "none"
  /\ \E ty \in SessionTypes, method \in SessionMethods, uploadId \in SessionUploadIds :
       call' = [fn |-> "sessionMultipart", type |-> ty, method |-> method,
                uploadId |-> uploadId, out |-> sessionMultipart(method, uploadId)]
  /\ UNCHANGED <<adapterVars, bridgeVars, listing, upload, race, collect>>

\* the statuses the part upload URL may answer the PUT of the data with
PutStatuses == {200, 403, 500}

\* AliyunDriveClient.putObject once the parent is resolved: the provider
\* answers the create call with `create` (or with an error), the PUT of the
\* data with `status` and the complete call with success or an error
aliyunPutObject(createOk, create, status, completeOk) ==
  LET sentCreate == [op |-> "create", url |-> <<>>]
      sentPut == [op |-> "PUT", url |-> uploadUrl(create.host, 1)]
      sentComplete == [op |-> "complete", url |-> <<>>]
  IN  IF ~createOk THEN [thrown |-> TRUE, requests |-> <<sentCreate>>]
      ELSE IF ~create.listed \/ create.count = 0
        THEN [thrown |-> TRUE, requests |-> <<sentCreate>>]
      ELSE IF create.upload_id # <<>>
        THEN [thrown |-> ~completeOk, requests |-> <<sentCreate, sentPut, sentComplete>>]
      ELSE [thrown |-> FALSE, requests |-> <<sentCreate, sentPut>>]

aliyunPutObjectCalled ==
  /\ call.fn = "none"
  /\ \E createOk \in BOOLEAN, create \in AliyunCreates, status \in PutStatuses,
        completeOk \in BOOLEAN :
       call' = [fn |-> "aliyunPutObject", create |-> create, status |-> status,
                createOk |-> createOk, completeOk |-> completeOk,
                out |-> aliyunPutObject(createOk, create, status, completeOk)]
  /\ UNCHANGED <<adapterVars, bridgeVars, listing, upload, race, collect>>

CallNext ==
  \/ baiduMultipartCalled
  \/ stripLeadingSlashCalled
  \/ stripTrailingSlashCalled
  \/ normalizeRootPathCalled
  \/ joinRootPathCalled
  \/ encodeUploadStateCalled
  \/ decodeUploadStateCalled
  \/ refreshTokenCalled
  \/ persistClientStateCalled
  \/ validateWebdavAuthCalled
  \/ resolveCalled
  \/ underParentCalled
  \/ baiduPutObjectCalled
  \/ aliyunMultipartCalled
  \/ md5HexCalled
  \/ sessionMultipartCalled
  \/ baiduSlicedCalled
  \/ aliyunPutObjectCalled

CallSpec == CallInit /\ [][CallNext]_vars

(* ------------------------- concurrent requests ------------------------- *)
\* Two requests on backend StorageId are served at once. Each one reads the
\* stored record and builds its own adapter from it (getStorageById,
\* createClient), runs one adapter operation inside withClientState, and
\* persists what its adapter reports as changed. The steps of the two
\* interleave at their awaits; a write of the store is one step.
Requests == {1, 2}

\* the records the store may hold at the start: a backend of an OAuth type
RaceStorages == {st \in Storages : st.type \in OAuthTypes}

RaceInit ==
  /\ client = 0
  /\ now = Now0
  /\ issued = 1
  /\ pc = "idle"
  /\ sent = <<>>
  /\ refreshes = 0
  /\ oauth = 0
  /\ nAuthFail = 0
  /\ depth = 0
  /\ result = "none"
  /\ env = 0
  /\ db \in RaceStorages
  /\ fs = {}
  /\ request = 0
  /\ response = 0
  /\ events = <<>>
  /\ outcomes = <<>>
  /\ listing = [pc |-> "idle"]
  /\ upload = [pc |-> "idle"]
  /\ call = [fn |-> "none"]
  /\ race = [w \in Requests |-> [pc |-> "arrived", client |-> createClient(db),
                                 thrown |-> FALSE, wrote |-> FALSE]]
  /\ collect = <<>>

\* getStorageById and createClient of request w
raceCreateClient(w) ==
  /\ race[w].pc = "arrived"
  /\ race' = [race EXCEPT ![w].pc = "action", ![w].client = createClient(db)]
  /\ UNCHANGED <<adapterVars, bridgeVars, listing, upload, call, collect>>

\* the adapter operation of request w: the token work of request(), with
\* the token endpoint answering r, and the payload
raceAction(w) ==
  /\ race[w].pc = "action"
  /\ \E r \in RefreshResponses(issued), signal \in BOOLEAN :
       LET c == race[w].client
           refreshing == \/ ensureTokenRefreshes(c, now)
                         \/ signal /\ retriesOnAuthExpiry(c)
           out == IF refreshing THEN refreshToken(c, r, now)
                  ELSE [thrown |-> FALSE, fetched |-> FALSE, client |-> c]
       IN  /\ issued' = IF refreshing /\ out.fetched THEN issued + 1 ELSE issued
           /\ oauth' = IF refreshing /\ out.fetched THEN oauth + 1 ELSE oauth
           /\ race' = [race EXCEPT ![w].pc = "persist",
                                   ![w].client = out.client,
                                   ![w].thrown = out.thrown \/ (signal /\ c.type = "alicloud")]
  /\ UNCHANGED <<client, now, pc, sent, refreshes, nAuthFail, depth, result>>
  /\ UNCHANGED <<bridgeVars, listing, upload, call, collect>>

\* the finally of withClientState of request w: persistClientState
racePersist(w) ==
  /\ race[w].pc = "persist"
  /\ LET p == persistClientState(race[w].client, db, FALSE)
     IN  /\ db' = p.db
         /\ race' = [race EXCEPT ![w].pc = "done", ![w].wrote = p.called]
  /\ UNCHANGED <<adapterVars, env, fs, request, response, events, outcomes>>
  /\ UNCHANGED <<listing, upload, call, collect>>

RaceNext ==
  \/ \E w \in Requests : raceCreateClient(w)
  \/ \E w \in Requests : raceAction(w)
  \/ \E w \in Requests : racePersist(w)

RaceSpec == RaceInit /\ [][RaceNext]_vars

(* ----------------------------- collectStats ---------------------------- *)
\* A prefix is the path of a folder, the root being <<>>. The drive holds
\* folders d, d/d, ... nested `nest` deep and a folder e, with `files` files
\* in the root and in every d.
FileNames == <<"f1", "f2", "f3", "f4">>

nested(j) == [i \in 1..j |-> "d"]

StatsDrive(files, nest) ==
  {[path |-> nested(j) \o <<FileNames[i]>>, isDirectory |-> FALSE, size |-> i + j] :
     i \in 1..files, j \in 0..nest}
  \cup {[path |-> nested(j), isDirectory |-> TRUE, size |-> 0] : j \in 1..nest}
  \cup (IF nest > 0 THEN {[path |-> <<"e">>, isDirectory |-> TRUE, size |-> 0]} ELSE {})

\* the continuation token that asks for page k, and the page a token asks for
tokenFor(k) == [kind |-> "string", s |-> <<k>>]
pageAsked(token) == IF truthy(token) THEN token.s[1] ELSE 1

\* client.listObjects(prefix, "/", 1000, token) on a drive whose listings
\* come in pages of pageSize entries: the objects of the page, the prefixes
\* of its folders (and, where the provider lists a folder with itself, the
\* prefix asked for on the first page), and the flag and token of the page,
\* the last page ending with `last`
listedPage(drive, prefix, token, pageSize, selfListed, last) ==
  LET all == asSequence(children(drive, prefix))
      k == pageAsked(token)
      from == (k - 1) * pageSize + 1
      to == IF k * pageSize < Len(all) THEN k * pageSize ELSE Len(all)
      items == SubSeq(all, from, to)
      folders == SelectSeq(items, LAMBDA f : f.isDirectory)
  IN  [objects |-> [i \in 1..Len(items) |->
                      [name |-> items[i].path[Len(items[i].path)],
                       size |-> items[i].size, isDirectory |-> items[i].isDirectory]],
       prefixes |-> (IF selfListed /\ k = 1 THEN <<prefix>> ELSE <<>>)
                    \o [i \in 1..Len(folders) |-> folders[i].path],
       page |-> pageEnd("gdrive", IF to < Len(all) THEN tokenFor(k + 1) ELSE last)]

\* the sizes of the objects of a page that are no directories, added up
RECURSIVE sizeOfFiles(_)
sizeOfFiles(objects) ==
  IF objects = <<>> THEN 0
  ELSE (IF Head(objects).isDirectory THEN 0 ELSE Head(objects).size)
       + sizeOfFiles(Tail(objects))

countOfFiles(objects) == Len(SelectSeq(objects, LAMBDA obj : ~obj.isDirectory))

\* a processing of a page that counts its folders but does not enqueue them
processedWithoutQueue(c, res) ==
  [c EXCEPT !.fileCount = @ + countOfFiles(res.objects),
            !.totalSize = @ + sizeOfFiles(res.objects),
            !.folderCount = @ + Len(res.prefixes)]

\* the two for loops over a result: files are counted and their sizes
\* added, every prefix is counted and pushed onto the queue (the
\* distribution of file types, a function of the names alone, is left out)
processed(c, res) ==
  [c EXCEPT !.fileCount = @ + countOfFiles(res.objects),
            !.totalSize = @ + sizeOfFiles(res.objects),
            !.folderCount = @ + Len(res.prefixes),
            !.queue = @ \o res.prefixes]

CollectInit ==
  /\ client = 0
  /\ now = Now0
  /\ issued = 1
  /\ pc = "idle"
  /\ sent = <<>>
  /\ refreshes = 0
  /\ oauth = 0
  /\ nAuthFail = 0
  /\ depth = 0
  /\ result = "none"
  /\ env = 0
  /\ db = 0
  /\ fs \in {StatsDrive(files, nest) : files \in 0..MaxFiles, nest \in 0..MaxNest}
  /\ request = 0
  /\ response = 0
  /\ events = <<>>
  /\ outcomes = <<>>
  /\ listing = [pc |-> "idle"]
  /\ upload = [pc |-> "idle"]
  /\ call = [fn |-> "none"]
  /\ race = <<>>
  /\ \E pageSize \in 1..MaxPage, selfListed \in BOOLEAN :
       collect = [pc |-> "while", pageSize |-> pageSize, selfListed |-> selfListed,
                  queue |-> << <<>> >>, visited |-> {}, currentPrefix |-> <<>>,
                  continuationToken |-> Undefined, first |-> TRUE,
                  fileCount |-> 0, totalSize |-> 0, folderCount |-> 0,
                  calls |-> <<>>, returned |-> FALSE]

\* while (queue.length > 0): a prefix already visited is skipped, another
\* one is marked and listObjects is called for it
collectShift ==
  /\ collect.pc = "while"
  /\ collect.queue # <<>>
  /\ LET currentPrefix == Head(collect.queue)
     IN  collect' =
           IF currentPrefix \in collect.visited
             THEN [collect EXCEPT !.queue = Tail(@), !.currentPrefix = currentPrefix]
             ELSE [collect EXCEPT
                     !.queue = Tail(@),
                     !.currentPrefix = currentPrefix,
                     !.visited = @ \cup {currentPrefix},
                     !.pc = "listObjects",
                     !.first = TRUE,
                     !.continuationToken = Undefined,
                     !.calls = Append(@, [prefix |-> currentPrefix, token |-> Undefined])]
  /\ UNCHANGED <<adapterVars, bridgeVars, listing, upload, call, race>>

\* listObjects returns a page: it is processed, and the next page is asked
\* for while there is a continuation token
collectListed ==
  /\ collect.pc = "listObjects"
  /\ \E last \in {Undefined, [kind |-> "string", s |-> <<>>]} :
       LET res == listedPage(fs, collect.currentPrefix, collect.continuationToken,
                             collect.pageSize, collect.selfListed, last)
           next == IF collect.first
                     THEN IF res.page.isTruncated /\ truthy(res.page.nextContinuationToken)
                            THEN res.page.nextContinuationToken ELSE Undefined
                     ELSE IF res.page.isTruncated
                            THEN res.page.nextContinuationToken ELSE Undefined
           c == processed(collect, res)
       IN  collect' =
             IF truthy(next)
               THEN [c EXCEPT !.first = FALSE, !.continuationToken = next,
                              !.calls = Append(@, [prefix |-> collect.currentPrefix,
                                                   token |-> next])]
               ELSE [c EXCEPT !.pc = "while", !.continuationToken = Undefined]
  /\ UNCHANGED <<adapterVars, bridgeVars, listing, upload, call, race>>

\* listObjects throws: the catch logs and throws again
collectThrows ==
  /\ collect.pc = "listObjects"
  /\ collect' = [collect EXCEPT !.pc = "thrown"]
  /\ UNCHANGED <<adapterVars, bridgeVars, listing, upload, call, race>>

\* the queue is empty: return stats
collectReturns ==
  /\ collect.pc = "while"
  /\ collect.queue = <<>>
  /\ collect' = [collect EXCEPT !.pc = "returned", !.returned = TRUE]
  /\ UNCHANGED <<adapterVars, bridgeVars, listing, upload, call, race>>

CollectNext ==
  \/ collectShift
  \/ collectListed
  \/ collectThrows
  \/ collectReturns

CollectSpec == CollectInit /\ [][CollectNext]_vars

\* every call of listObjects is answered, and the loop goes on when it can
CollectFairSpec == CollectSpec /\ WF_vars(CollectNext)

BoundedRetry ==
  /\ Len(sent) <= 2
  /\ (Len(sent) = 2 /\ sent[2].answer = "unauthorized")
       => (pc = "done" /\ result = "thrown")

\* C3: an Aliyun request answered with HTTP 401 is followed by a token
\* refresh and one replay before the call ends.
AliyunRetriesOn401 ==
  ( /\ client.type = "alicloud"
    /\ pc = "done"
    /\ Len(sent) >= 1
    /\ sent[1].answer = "unauthorized" )
  => (refreshes >= 1 /\ Len(sent) = 2)

(* ------------------------- claims: the bridge -------------------------- *)
AdapterOps ==
  {"listObjects", "getObject", "putObject", "deleteObject", "createFolder",
   "copyObject", "moveObject", "collectStats"}

Positions(ops) == {i \in 1..Len(events) : events[i].op \in ops}

\* C4: every adapter operation run through withClientState (bridge and
\* storage-stats route) is followed at once by exactly one read-back of the
\* adapter's state, whether it returned or threw; what the adapter changed is
\* in the store afterwards unless the store itself failed; and the response
\* is the operation's own success or failure whatever the store did.
PersistsOnceAfterEachOperation ==
  pc = "served" =>
    /\ \A i \in Positions(AdapterOps) :
         i < Len(events) /\ events[i + 1].op = "persistClientState"
    /\ \A i \in Positions({"persistClientState"}) :
         i > 1 /\ events[i - 1].op \in AdapterOps
    /\ \A i \in Positions({"updateStorage"}) :
         i > 1 /\ events[i - 1].op = "persistClientState"
    /\ Len(outcomes) = Cardinality(Positions(AdapterOps))
    /\ Len(outcomes) > 0 =>
         /\ (response.status \in {404, 500}) = outcomes[Len(outcomes)].thrown
         /\ (\A i \in 1..Len(outcomes) : ~outcomes[i].storeThrown) =>
              /\ client.savingChanged => db.saving = client.saving
              /\ client.configChanged => db.config = client.config

\* a PUT whose token was refreshed, whose upload then failed, and whose new
\* token is in the store
PersistsOnceAfterEachOperationWitness ==
  /\ pc = "served"
  /\ request.method = "PUT"
  /\ Len(outcomes) = 1
  /\ outcomes[1].thrown
  /\ client.savingChanged
  /\ db.saving.access_token = 2
  /\ response.status = 500
  /\ events[Len(events)].op = "updateStorage"

\* the Basic credentials as RFC 7617 reads them: the user-id up to the first
\* colon, the password everything after it
presented(auth) ==
  LET i == indexOf(auth.credentials, Colon)
  IN  [username |-> IF i = 0 THEN auth.credentials ELSE SubSeq(auth.credentials, 1, i - 1),
       defined |-> i # 0,
       password |-> IF i = 0 THEN <<>>
                    ELSE SubSeq(auth.credentials, i + 1, Len(auth.credentials))]

\* the request carries the credentials the bridge is configured with
matchesConfigured(auth, e) ==
  /\ auth.scheme = "Basic"
  /\ auth.decodable
  /\ presented(auth).defined
  /\ presented(auth).username = orElse(e.WEBDAV_USERNAME, e.ADMIN_USERNAME, U("admin"))
  /\ presented(auth).password = orElse(e.WEBDAV_PASSWORD, e.ADMIN_PASSWORD, U("changeme"))

DavMethods == {"GET", "HEAD", "PROPFIND", "PUT", "DELETE", "MKCOL", "COPY", "MOVE", "POST"}

\* C5: with WebDAV enabled, a DAV request other than OPTIONS whose
\* Authorization header is missing, not Basic, undecodable or not the
\* configured credentials is answered 401 with a Basic challenge, and nothing
\* is read from the store, no adapter is built and no operation runs.
UnauthenticatedGets401 ==
  ( /\ pc = "served"
    /\ request.method \in DavMethods
    /\ env.WEBDAV_ENABLED
    /\ ~matchesConfigured(request.auth, env) )
  => ( /\ response.status = 401
       /\ response.challenge
       /\ events = <<>> )

\* C6: when an adapter operation throws while the bridge serves PROPFIND,
\* GET, HEAD, PUT, DELETE, MKCOL, COPY or MOVE, the response is a 500.
AdapterFailureIs500 ==
  ( /\ pc = "served"
    /\ request.method \in DavMethods \ {"POST"}
    /\ \E i \in 1..Len(outcomes) : outcomes[i].thrown )
  => response.status = 500

\* a MOVE that got past the checks, with a Destination that parses
isMove ==
  /\ pc = "served"
  /\ request.method = "MOVE"
  /\ admitted(request)
  /\ request.destination.valid

\* C7: a MOVE whose Destination path does not start with /dav/{storageId}/
\* is answered with an error status, and neither moveObject nor copyObject
\* is invoked on the adapter.
MoveOutsidePrefixFails ==
  ( isMove /\ ~startsWith(request.destination.pathname, Prefix(request.storageId)) )
  => ( /\ response.status >= 400
       /\ Positions({"moveObject", "copyObject"}) = {} )

\* C8: a MOVE of an existing file to a new key under /dav/{storageId}/ whose
\* parent folder exists, with the provider and the store answering normally,
\* is answered 201, and afterwards the source key is gone and the object is
\* stored under the destination key.
MoveInsidePrefixSucceeds ==
  ( /\ isMove
    /\ startsWith(request.destination.pathname, Prefix(request.storageId))
    /\ \E f \in Drive0 : f.path = parts(request.path) /\ ~f.isDirectory
    /\ isFolder(Drive0, parts(parentPathOf(destPathOf(request))))
    /\ ~exists(Drive0, parts(destPathOf(request)))
    /\ lastName(destPathOf(request), <<>>) # <<>>
    /\ \A i \in 1..Len(outcomes) : ~outcomes[i].faulted )
  => ( /\ response.status = 201
       /\ ~exists(fs, parts(request.path))
       /\ \E f \in fs : f.path = parts(destPathOf(request)) /\ ~f.isDirectory )

(* ----------------------------- claims: lists --------------------------- *)
Listed == listing.pc = "returned"

DirectoriesFirst(objects) ==
  \A i, j \in 1..Len(objects) : (i < j /\ objects[j].isDirectory) => objects[i].isDirectory

PrefixesAreDirectoryKeys(r) ==
  \A k \in 1..Len(r.prefixes) :
    \E i \in 1..Len(r.objects) : r.objects[i].key = r.prefixes[k] /\ r.objects[i].isDirectory

\* names in the order of their UTF-16 code units
lexicographic(x, y) == compareSeq(codeUnits(x), codeUnits(y)) <= 0

chunkOf(u) ==
  IF u.type = "onedrive" /\ u.chunk_size # 0 THEN u.chunk_size ELSE DefaultChunk

\* ceil(n / c)
ceilDiv(n, c) == (n + c - 1) \div c

\* C10: putObject on Google Drive or OneDrive with a payload of N above the
\* single-shot threshold and chunk size C never has two uploadPart calls
\* outstanding, numbers the calls 1, 2, ... in the order it makes them, gives
\* every call but the last exactly C, and when it returns has made exactly
\* ceil(N / C) calls that together carry N.
PutObjectParts ==
  (upload.pc # "idle" /\ upload.size > singleShotLimit(upload.type)) =>
    /\ Len(upload.calls) - upload.completed \in {0, 1}
    /\ upload.singleShots = 0
    /\ \A i \in 1..Len(upload.calls) :
         /\ upload.calls[i].partNumber = i
         /\ upload.calls[i].start = (i - 1) * chunkOf(upload)
         /\ upload.calls[i].length >= 1
         /\ upload.calls[i].length <= chunkOf(upload)
         /\ i < Len(upload.calls) => upload.calls[i].length = chunkOf(upload)
    /\ Len(upload.calls) <= ceilDiv(upload.size, chunkOf(upload))
    /\ upload.pc = "returned" =>
         /\ Len(upload.calls) = ceilDiv(upload.size, chunkOf(upload))
         /\ upload.completed = Len(upload.calls)
         /\ upload.calls[Len(upload.calls)].end = upload.size - 1

\* 50 MiB at 4 MiB: 13 parts, the last of 2 MiB
PutObjectPartsWitness ==
  /\ upload.pc = "returned"
  /\ upload.type = "onedrive"
  /\ upload.size = 50
  /\ upload.chunk_size = 4
  /\ Len(upload.calls) = 13
  /\ upload.calls[12].length = 4
  /\ upload.calls[13].length = 2

(* ------------------------- claims: helpers ----------------------------- *)
\* C11: each of the four multipart methods of the Baidu adapter
\* (initiateMultipartUpload, uploadPart, completeMultipartUpload,
\* abortMultipartUpload) fails with the unsupported-operation error whatever
\* its arguments, and none sends a request.
BaiduMultipartFailsFast ==
  call.fn \in BaiduMultipartMethods =>
    /\ call.out.thrown
    /\ call.out.message = BaiduUnsupported
    /\ call.out.fetches = 0

\* C12: stripLeadingSlash and stripTrailingSlash are idempotent, also on
\* inputs with several leading or trailing slashes, and return "" and every
\* string of length 1 (the string "/" included) unchanged.
StripIsIdempotent ==
  /\ call.fn = "stripLeadingSlash" =>
        /\ stripLeadingSlash(call.out) = call.out
        /\ Len(call.path) <= 1 => call.out = call.path
  /\ call.fn = "stripTrailingSlash" =>
        /\ stripTrailingSlash(call.out) = call.out
        /\ Len(call.path) <= 1 => call.out = call.path

\* whether s holds two separators next to each other
doubleSlash(s) == \E i \in 1..(Len(s) - 1) : s[i] = "/" /\ s[i + 1] = "/"

\* C13: normalizeRootPath returns a path that starts with "/" and ends with
\* "/" only when it is exactly "/"; "" gives "/", "a/" gives "/a" and
\* "/a/a/" gives "/a/a".
NormalizedRootShape ==
  /\ normalizeRootPath(<<>>) = <<"/">>
  /\ normalizeRootPath(<<"a", "/">>) = <<"/", "a">>
  /\ normalizeRootPath(<<"/", "a", "/", "a", "/">>) = <<"/", "a", "/", "a">>
  /\ call.fn = "normalizeRootPath" =>
        /\ startsWith(call.out, <<"/">>)
        /\ endsWith(call.out, <<"/">>) => call.out = <<"/">>

\* C14: joinRootPath returns one path that starts with "/" and holds no two
\* consecutive separators, and returns exactly the normalized root when path
\* is empty or "/".
JoinedPathShape ==
  call.fn = "joinRootPath" =>
    /\ startsWith(call.out, <<"/">>)
    /\ ~doubleSlash(call.out)
    /\ call.path \in {<<>>, <<"/">>} => call.out = normalizeRootPath(call.rootPath)

\* C15: decodeUploadState(encodeUploadState(s)) = s for every attribute map
\* s, string values with characters outside Latin-1 included, and the token
\* holds no "+", "/" or "=".
UploadStateRoundTrip ==
  call.fn = "encodeUploadState" =>
    /\ ~call.out.thrown
    /\ decodeUploadState(call.out.token) =
         [thrown |-> FALSE, kind |-> "map", map |-> call.state, n |-> 0]
    /\ \A i \in 1..Len(call.out.token) : call.out.token[i] \notin {43, 47, 61}

\* whether token is what encodeUploadState returns for some attribute map:
\* it then decodes to that map, and the map encodes to it
isOutput(token) ==
  LET decoded == decodeUploadState(token)
  IN  /\ ~decoded.thrown
      /\ decoded.kind = "map"
      /\ ~encodeUploadState(decoded.map).thrown
      /\ encodeUploadState(decoded.map).token = token

\* C16: decodeUploadState fails for every string that is not an output of
\* encodeUploadState (a token cut short or changed, a token with padding
\* appended, a token whose JSON is no attribute map) and returns no value
\* for it.
DecodeRejectsForeignTokens ==
  (call.fn = "decodeUploadState" /\ ~isOutput(call.token)) => call.out.thrown

(* ------------------------- claims: tokens ------------------------------ *)
\* when ensureToken is to refresh: Baidu without a cached access token, the
\* others without one, without a recorded expiry, or from 5 minutes before
\* the expiry on
refreshDue(c, t) ==
  IF c.type = "baiduyun" THEN c.saving.access_token = 0
  ELSE \/ c.saving.access_token = 0
       \/ c.saving.expires_at = 0
       \/ t >= c.saving.expires_at - Margin

\* C17: ensureToken of the Google Drive, OneDrive and Aliyun adapters calls
\* refreshToken iff no access token is cached, no expiry is recorded or the
\* time is at or past expires_at minus 5 minutes, and the Baidu adapter iff no
\* access token is cached; when it does not refresh, config, saving and the
\* dirty flags stay as they are.  A refresh either completes or throws out
\* of request().
EnsureTokenRefreshesWhenDue ==
  [][pc = "ensureToken" =>
       IF refreshDue(client, now)
         THEN \/ refreshes' = refreshes + 1 /\ client'.savingChanged
              \/ pc' = "done" /\ result' = "thrown" /\ client' = client /\ depth = 0
         ELSE /\ refreshes' = refreshes
              /\ oauth' = oauth
              /\ client' = client]_vars

\* ensureToken has refreshed a Google Drive token and the request is about
\* to be sent for the first time
EnsureTokenRefreshesWhenDueWitness ==
  /\ pc = "fetch"
  /\ sent = <<>>
  /\ refreshes = 1
  /\ client.type = "gdrive"
  /\ client.savingChanged

\* C18: after a successful refresh the session state holds the new access
\* token and is marked dirty; the refresh token of the config copy is
\* overwritten and the config marked dirty iff the response carried a refresh
\* token; a response with an access token only leaves the config copy and
\* its dirty flag as they were.
RefreshStoresTokens ==
  (call.fn = "refreshToken" /\ ~call.out.thrown) =>
    LET before == call.client
        after == call.out.client
        r == call.response
    IN  /\ r.access_token # 0
        /\ after.saving.access_token = r.access_token
        /\ after.savingChanged
        /\ IF r.refresh_token # 0
             THEN /\ after.config = [before.config EXCEPT !.refresh_token = r.refresh_token]
                  /\ after.configChanged
             ELSE /\ after.config = before.config
                  /\ after.configChanged = before.configChanged

\* a Google Drive refresh answered with an access token only, on an adapter
\* whose config was clean
RefreshStoresTokensWitness ==
  /\ call.fn = "refreshToken"
  /\ ~call.out.thrown
  /\ call.client.type = "gdrive"
  /\ call.response.refresh_token = 0
  /\ ~call.client.configChanged
  /\ call.out.client.saving.access_token = 2

(* ------------------------- claims: persistence -------------------------- *)
\* C19: persistClientState calls the store's update iff the adapter has
\* getStateUpdates and reports at least one dirty flag; the update carries
\* the config map iff the config is dirty and the saving map iff the session
\* state is dirty, and the store's record takes exactly those maps; without
\* an update the record stays as it was.
PersistsChangedSlices ==
  call.fn = "persistClientState" =>
    LET c == call.client
        p == call.out
    IN  /\ p.called <=> (c.type \in OAuthTypes /\ (c.savingChanged \/ c.configChanged))
        /\ p.called => (p.input.hasConfig <=> c.configChanged)
        /\ p.called => (p.input.hasSaving <=> c.savingChanged)
        /\ p.db.config = IF p.called /\ ~p.thrown /\ c.configChanged
                            THEN c.config ELSE call.storage.config
        /\ p.db.saving = IF p.called /\ ~p.thrown /\ c.savingChanged
                            THEN c.saving ELSE call.storage.saving

\* an adapter whose session state alone is dirty: the update carries the
\* saving map and not the config map
PersistsChangedSlicesWitness ==
  /\ call.fn = "persistClientState"
  /\ call.client.savingChanged
  /\ ~call.client.configChanged
  /\ call.client.config # call.storage.config
  /\ call.out.called
  /\ ~call.out.thrown
  /\ call.out.db.saving = call.client.saving
  /\ call.out.db.config = call.storage.config

(* ------------------------- claims: credentials -------------------------- *)
\* the credential pair the bridge is configured with: the WebDAV-specific
\* pair when it is set, otherwise the admin pair (with the defaults the
\* code gives the admin pair)
configuredPair(e) ==
  IF e.WEBDAV_USERNAME # <<>> /\ e.WEBDAV_PASSWORD # <<>>
    THEN [username |-> e.WEBDAV_USERNAME, password |-> e.WEBDAV_PASSWORD]
    ELSE [username |-> IF e.ADMIN_USERNAME # <<>> THEN e.ADMIN_USERNAME ELSE U("admin"),
          password |-> IF e.ADMIN_PASSWORD # <<>> THEN e.ADMIN_PASSWORD ELSE U("changeme")]

\* C20: a request is authenticated iff its Basic credentials, the user name
\* before the first colon and the password after it, are the WebDAV-specific
\* pair when one is configured and otherwise the admin pair; user name and
\* password are taken from the same pair, and a password that holds ":" and
\* equals the configured one is accepted.
BasicAuthMatchesOnePair ==
  call.fn = "validateWebdavAuth" =>
    (call.out <=> /\ call.auth.scheme = "Basic"
                  /\ call.auth.decodable
                  /\ presented(call.auth).defined
                  /\ presented(call.auth).username = configuredPair(call.env).username
                  /\ presented(call.auth).password = configuredPair(call.env).password)

(* ------------------------- claims: the root ---------------------------- *)
\* the handler answered without getStorageById, createClient or any adapter
\* operation
noAdapter ==
  /\ outcomes = <<>>
  /\ \A i \in 1..Len(events) :
       events[i].op \in {"initDatabase", "getAllStorages"}

\* the request passed the enabled flag and the credential check
authenticated ==
  /\ env.WEBDAV_ENABLED
  /\ validateWebdavAuth(request.auth, env)

\* C21 as amended: for backend id 0 an authenticated PROPFIND returns 207
\* with one response for the root collection and one per backend of the
\* store; every other authenticated method except OPTIONS is rejected, with
\* 405 by the loader and 403 by the action; and no request against id 0
\* calls getStorageById, builds an adapter or invokes an adapter operation.
RootIsListedNotServed ==
  (pc = "served" /\ request.method # "STATS" /\ request.storageId = RootId) =>
    /\ noAdapter
    /\ (authenticated /\ request.method # "OPTIONS") =>
         IF request.method = "PROPFIND"
           THEN /\ response.status = 207
                /\ events[Len(events)].op = "getAllStorages"
                /\ response.entries = 1 + Len(events[Len(events)].a)
           ELSE IF request.method \in {"GET", "HEAD"}
             THEN response.status = 405
             ELSE response.status = 403

\* a PROPFIND on the root of a store with two backends: three responses
RootIsListedNotServedWitness ==
  /\ pc = "served"
  /\ request.method = "PROPFIND"
  /\ request.storageId = RootId
  /\ response.status = 207
  /\ response.entries = 3
  /\ events = <<Call("initDatabase"), Ev("getAllStorages", <<StorageId, "5">>, <<>>)>>

\* C21: for backend id 0 an authenticated PROPFIND returns 207 with the root
\* and one child per backend, every other method is rejected (405 by the
\* loader, 403 by the action), and no adapter is looked up, built or invoked.
RootRejectsEveryOtherMethod ==
  (pc = "served" /\ request.method # "STATS" /\ request.storageId = RootId) =>
    /\ noAdapter
    /\ authenticated =>
         IF request.method = "PROPFIND"
           THEN /\ response.status = 207
                /\ response.entries = 1 + Len(events[Len(events)].a)
           ELSE IF request.method \in {"OPTIONS", "GET", "HEAD"}
             THEN response.status = 405
             ELSE response.status = 403

\* an adapter operation is among the calls of the request
adapterInvoked ==
  \/ outcomes # <<>>
  \/ \E i \in 1..Len(events) :
       events[i].op \in {"listObjects", "getObject", "putObject", "deleteObject",
                         "createFolder", "copyObject", "moveObject", "collectStats"}

adapterConstructed == \E i \in 1..Len(events) : events[i].op = "createClient"

\* C22: a response with status 401, 403 or 405 is produced without any
\* adapter operation invoked for the request; with WebDAV not enabled every
\* request except OPTIONS gets 403 whatever its credentials, before any
\* call; and for an unknown backend id no adapter is ever constructed, the
\* request that passes the enabled flag and the credentials check getting
\* 404 right after the lookup.
RefusedBeforeAdapter ==
  pc = "served" =>
    /\ response.status \in {401, 403, 405} => ~adapterInvoked
    /\ (request.method \notin {"STATS", "OPTIONS"} /\ ~env.WEBDAV_ENABLED) =>
         response.status = 403 /\ events = <<>>
    /\ request.storageId = OtherId =>
         /\ ~adapterConstructed /\ ~adapterInvoked
         /\ (request.method \notin {"STATS", "OPTIONS"} /\ authenticated) =>
              response.status = 404 /\ events = lookedUp

RefusedBeforeAdapterWitness ==
  /\ pc = "served" /\ request.method = "PUT" /\ request.storageId = OtherId
  /\ authenticated
  /\ response.status = 404
  /\ events = <<Call("initDatabase"), Call("getStorageById")>>

\* C23: a request with method OPTIONS is answered 200 with the DAV header and
\* an Allow header naming the nine supported methods, and answering it calls
\* nothing (no store call, no adapter built, no adapter operation) and leaves
\* the store's record, the drive and the adapter as they were, whatever the
\* backend id, the path, the credentials and the enabled flag.
OptionsTouchesNothing ==
  [][request'.method = "OPTIONS" =>
       /\ response'.status = 200
       /\ response'.dav
       /\ Len(response'.allow) = 9
       /\ {response'.allow[i] : i \in 1..9} =
            {"OPTIONS", "GET", "HEAD", "PUT", "DELETE", "PROPFIND", "MKCOL", "COPY", "MOVE"}
       /\ events' = <<>>
       /\ outcomes' = <<>>
       /\ UNCHANGED <<db, fs, client, env>>]_vars

OptionsTouchesNothingWitness ==
  /\ pc = "served" /\ request.method = "OPTIONS"
  /\ ~env.WEBDAV_ENABLED
  /\ request.storageId = OtherId
  /\ request.auth.scheme = "none"
  /\ request.path = <<"sub", "/", "c">>
  /\ response.status = 200 /\ response.dav /\ Len(response.allow) = 9
  /\ events = <<>>

\* the key of the call resolves to nothing on the drive
unresolved == ~findFileIdByPath(Drive0, call.key).found

\* C24: on every OAuth adapter a key that resolves to nothing makes
\* headObject return null and listObjects return a result, neither of them
\* throwing, and makes getObject, getSignedUrl, renameObject, moveObject and
\* copyObject (the key being the source) throw.
NotFoundIsNullOrThrown ==
  (call.fn = "resolve" /\ unresolved) =>
    CASE call.method = "headObject" -> ~call.out.thrown /\ call.out.isNull
      [] call.method = "listObjects" -> ~call.out.thrown
      [] OTHER -> call.out.thrown

\* the parent path of the call's key, as the method computes it
parentOfCall ==
  parentPathOf(IF call.method = "createFolder"
                 THEN stripTrailingSlash(stripLeadingSlash(call.key))
                 ELSE stripLeadingSlash(call.key))

\* some segment of the parent path resolves to nothing on the drive
parentUnresolved ==
  \E k \in 1..Len(parts(parentOfCall)) :
     ~exists(Drive0, SubSeq(parts(parentOfCall), 1, k))

\* C25: putObject, initiateMultipartUpload and createFolder of an adapter
\* that walks the parent path fail when a segment of the parent path does not
\* resolve, having sent lookups only: no folder is created, no upload and
\* no upload session is started.
MissingParentFailsUnchanged ==
  (call.fn = "underParent" /\ parentUnresolved) =>
    /\ call.out.thrown
    /\ \A i \in 1..Len(call.out.requests) : call.out.requests[i].kind = "lookup"

MissingParentFailsUnchangedWitness ==
  /\ call.fn = "underParent" /\ call.type = "alicloud" /\ call.method = "putObject"
  /\ call.key = <<"sub", "/", "zz", "/", "n">>
  /\ call.out.thrown
  /\ call.out.requests = <<Lookup(<<U("sub")>>), Lookup(<<U("sub"), U("zz")>>)>>

\* the provider reports a non-zero code for the slice
reportsFailure(answer) ==
  answer.errno \notin {<<>>, <<0>>} \/ answer.error_code \notin {<<>>, <<0>>}

\* C26: Baidu putObject sends precreate first, with one digest per slice;
\* on return_type = 2 it returns with nothing else sent; otherwise it sends
\* the slices one at a time with partseq 0, 1, ... and the returned
\* uploadid, and create exactly once, after every slice has succeeded; a
\* missing uploadid or a failed slice ends the call, thrown, before create.
BaiduPutObjectOrder ==
  call.fn = "baiduPutObject" =>
    LET r == call.out.requests
        n == blockCount(call.fileSize, BaiduSlice)
        created == {i \in 1..Len(r) : r[i].op = "create"}
        sliced == {i \in 1..Len(r) : r[i].op = "slice"}
    IN  /\ r[1] = [op |-> "precreate", blocks |-> n]
        /\ call.pre.return_type = 2 => ~call.out.thrown /\ Len(r) = 1
        /\ (call.pre.return_type # 2 /\ call.pre.uploadid = <<>>) =>
             call.out.thrown /\ Len(r) = 1
        /\ \A i \in sliced :
             /\ r[i].partseq = i - 2
             /\ r[i].uploadid = call.pre.uploadid
             /\ reportsFailure(call.answers[i - 1]) =>
                  call.out.thrown /\ created = {} /\ i = Len(r)
        /\ created # {} =>
             /\ created = {Len(r)} /\ Len(r) = n + 2
             /\ \A k \in 1..n : ~reportsFailure(call.answers[k])

\* the chunk size the Aliyun call works with
chunkOfCall == IF call.chunkSize # 0 THEN call.chunkSize ELSE AliyunChunk

\* C27: Aliyun initiateMultipartUpload declares the parts 1..max(1,
\* ceil(size / chunkSize)) and its token holds the upload URL the provider
\* returned for each part; uploadPart sends one PUT, to the URL the token
\* holds for its part number, and throws with nothing sent when the token
\* has no such part; completeMultipartUpload sends exactly one finalize call,
\* with the file id and the upload id of the token.
AliyunMultipartFollowsToken ==
  call.fn = "aliyunMultipart" =>
    /\ call.init.requests[1].parts =
         [k \in 1..(IF call.size <= chunkOfCall THEN 1
                    ELSE (call.size + chunkOfCall - 1) \div chunkOfCall) |-> k]
    /\ ~call.init.thrown =>
         \A k \in 1..call.create.count :
            field(decodeUploadState(call.init.token).map, partKey(k)).s
              = uploadUrl(call.create.host, k)
    /\ call.method = "uploadPart" =>
         IF call.partNumber \in 1..call.create.count
           THEN call.out.requests =
                  <<[op |-> "put", url |-> uploadUrl(call.create.host, call.partNumber)]>>
           ELSE call.out.thrown /\ call.out.requests = <<>>
    /\ call.method = "completeMultipartUpload" =>
         call.out.requests = <<[op |-> "complete", file_id |-> call.create.file_id,
                                upload_id |-> call.create.upload_id]>>

AliyunMultipartFollowsTokenWitness ==
  /\ call.fn = "aliyunMultipart" /\ call.method = "uploadPart"
  /\ call.size = 4 /\ call.chunkSize = 3
  /\ Len(call.init.requests[1].parts) = 2
  /\ call.create.count = 2 /\ call.partNumber = 3
  /\ call.out.thrown /\ call.out.requests = <<>>

\* the entries the drive holds directly under the requested path
held == children(fs, parts(stripLeadingSlash(request.path)))

\* C28: a PROPFIND on a real backend that is answered 207 carries a document
\* with one response for the requested collection and one for each entry
\* of the listing (three for the root holding a.txt and sub/); the response
\* of a file has an empty resourcetype and getcontentlength equal to the
\* size of the object, the response of a directory has a collection
\* resourcetype and no getcontentlength.
PropfindListsCollectionAndEntries ==
  (pc = "served" /\ request.method = "PROPFIND" /\ request.storageId = StorageId
     /\ response.status = 207) =>
    LET xml == response.multistatus IN
    /\ Len(xml) = 1 + Cardinality(held)
    /\ xml[1].collection /\ xml[1].getcontentlength = <<>>
    /\ \A f \in held :
         \E i \in 2..Len(xml) :
           /\ xml[i].displayname = f.path[Len(f.path)]
           /\ xml[i].collection = f.isDirectory
           /\ xml[i].getcontentlength = IF f.isDirectory THEN <<>> ELSE <<f.size>>
    /\ request.path = <<>> => Len(xml) = 3

PropfindListsCollectionAndEntriesWitness ==
  /\ pc = "served" /\ request.method = "PROPFIND" /\ request.storageId = StorageId
  /\ request.path = <<>>
  /\ response.status = 207
  /\ Len(response.multistatus) = 3
  /\ \E i \in 2..3 : /\ response.multistatus[i].displayname = U("a")
                      /\ ~response.multistatus[i].collection
                      /\ response.multistatus[i].getcontentlength = <<10>>
  /\ \E i \in 2..3 : /\ response.multistatus[i].displayname = U("sub")
                      /\ response.multistatus[i].collection
                      /\ response.multistatus[i].getcontentlength = <<>>

\* C29: in every result of listObjects, isTruncated = false goes with no
\* nextContinuationToken, and isTruncated = true with a nextContinuationToken
\* that is a non-empty string.
TruncationMatchesToken ==
  listing.pc = "returned" =>
    IF listing.page.isTruncated
      THEN /\ listing.page.nextContinuationToken.kind = "string"
           /\ listing.page.nextContinuationToken.s # <<>>
      ELSE listing.page.nextContinuationToken = Undefined

\* C30: md5Hex returns 32 lowercase hexadecimal characters, and for the
\* empty input and for the three bytes "abc" the digests of the MD5
\* reference, d41d8cd98f00b204e9800998ecf8427e and
\* 900150983cd24fb0d6963f7d28e17f72, all additions being taken modulo 2^32.
Md5MatchesReference ==
  call.fn = "md5Hex" =>
    /\ Len(call.out) = 32
    /\ \A i \in 1..32 : \E h \in 1..16 : call.out[i] = HexDigits[h]
    /\ call.bytes = <<>> =>
         call.out = <<"d", "4", "1", "d", "8", "c", "d", "9", "8", "f", "0", "0", "b", "2", "0", "4",
             "e", "9", "8", "0", "0", "9", "9", "8", "e", "c", "f", "8", "4", "2", "7", "e">>
    /\ call.bytes = <<97, 98, 99>> =>
         call.out = <<"9", "0", "0", "1", "5", "0", "9", "8", "3", "c", "d", "2", "4", "f", "b", "0",
             "d", "6", "9", "6", "3", "f", "7", "d", "2", "8", "e", "1", "7", "f", "7", "2">>

Md5MatchesReferenceWitness ==
  /\ call.fn = "md5Hex"
  /\ call.bytes = <<97, 98, 99>>
  /\ SubSeq(call.out, 1, 8) = <<"9", "0", "0", "1", "5", "0", "9", "8">>

(* ----------------------- claims: upload sessions ----------------------- *)
\* C31: on the Google Drive and OneDrive adapters completeMultipartUpload
\* and abortMultipartUpload are no-ops: for any token they send no provider
\* request, change no adapter state and return success. (Neither method
\* assigns a field of the adapter; what a call can do is send a request or
\* throw.)
SessionCompleteAbortAreNoOps ==
  call.fn = "sessionMultipart" =>
    /\ call.out.fetches = <<>>
    /\ ~call.out.thrown

(* ------------------------ claims: Aliyun drive id ---------------------- *)
\* C32: when the Aliyun adapter is created with no drive_id in its session
\* state, its first API call terminates: after the token check the drive id
\* is resolved with one getDriveInfo request, drive_id is stored, the session
\* state is marked dirty and the payload request is sent; the token check
\* and the drive-info resolution do not keep re-entering each other.
AliyunResolvesDriveIdOnce ==
  client.type = "alicloud" =>
    /\ depth <= 1
    /\ (pc = "done" /\ depth > 0) =>
         /\ result # "thrown"
         /\ sent # <<>>
         /\ client.saving.drive_id # 0
         /\ client.savingChanged

(* --------------------- claims: concurrent requests --------------------- *)
\* the newest token among those the two requests' adapters hold in `part`
\* ("saving" / "config") under `key`, 0 when neither changed that part
newest(part, key) ==
  LET held2(w) == IF part = "saving"
                    THEN IF race[w].client.savingChanged
                           THEN race[w].client.saving[key] ELSE 0
                    ELSE IF race[w].client.configChanged
                           THEN race[w].client.config[key] ELSE 0
  IN  IF held2(1) >= held2(2) THEN held2(1) ELSE held2(2)

\* C33: for every interleaving of two concurrent requests on the same
\* backend, each of which reads the stored config/saving, refreshes the
\* token through its own adapter and persists its changed slices, the
\* refresh token and the access token held in the store at the end are the
\* ones most recently issued by the provider: a later write never replaces
\* a newer token with an older one.
StoreKeepsNewestTokens ==
  (\A w \in Requests : race # <<>> /\ race[w].pc = "done") =>
    /\ newest("saving", "access_token") # 0 =>
         db.saving.access_token = newest("saving", "access_token")
    /\ newest("config", "refresh_token") # 0 =>
         db.config.refresh_token = newest("config", "refresh_token")

(* ----------------------------- claims: MOVE ---------------------------- *)
\* the positions of the calls of adapter operation op among the events
invocationsOf(op) == {i \in 1..Len(events) : events[i].op = op}

\* C34: MOVE invokes the adapter's moveObject, and neither copyObject nor
\* deleteObject, when the adapter has a moveObject; otherwise it invokes
\* copyObject and then deleteObject on the source, in that order, and
\* deleteObject only after copyObject has completed successfully; a MOVE
\* that fails leaves every object of the drive in place.
MovePrefersNative ==
  (pc = "served" /\ request.method = "MOVE") =>
    /\ db.type \in OAuthTypes =>
         /\ invocationsOf("copyObject") = {}
         /\ invocationsOf("deleteObject") = {}
         /\ Cardinality(invocationsOf("moveObject")) <= 1
    /\ db.type \notin OAuthTypes =>
         /\ invocationsOf("moveObject") = {}
         /\ Cardinality(invocationsOf("copyObject")) <= 1
         /\ \A j \in invocationsOf("deleteObject") :
              /\ \E i \in invocationsOf("copyObject") : i < j
              /\ ~outcomes[1].thrown
              /\ events[j].a = request.path
              /\ invocationsOf("deleteObject") = {j}
    /\ (admitted(request) /\ request.destination.valid) =>
         invocationsOf("moveObject") \cup invocationsOf("copyObject") # {}
    /\ response.status # 201 => Drive0 \subseteq fs

\* a MOVE on an adapter without moveObject whose copy succeeded: deleteObject
\* on the source follows and the source is gone
MovePrefersNativeWitness ==
  /\ pc = "served"
  /\ request.method = "MOVE"
  /\ db.type = "s3"
  /\ invocationsOf("copyObject") # {}
  /\ invocationsOf("deleteObject") # {}
  /\ response.status = 201
  /\ ~(Drive0 \subseteq fs)

(* ------------------------- claims: Content-Range ----------------------- *)
\* the state putObject's upload id decodes to
tokenState == decodeUploadState(upload.uploadId).map

\* C35: uploadPart on Google Drive and OneDrive sends the range
\* "bytes start-end/total" with start = (partNumber - 1) * chunkSize,
\* end = start + length - 1 and total = the size declared at initiate, all
\* read from the token; the ranges of the parts putObject sends for N bytes
\* are disjoint and contiguous in part order, have start <= end < total, and
\* cover exactly the bytes 0..N-1 when putObject returns.
ContentRangesTileThePayload ==
  (upload.pc \in {"loop", "uploadPart", "thrown", "returned"} /\ upload.uploadId # <<>>) =>
    LET chunkSize == field(tokenState, utf16("chunkSize")).n
        total == field(tokenState, utf16("fileSize")).n
    IN
    /\ total = upload.size
    /\ \A i \in 1..Len(upload.calls) :
         LET part == upload.calls[i] IN
         /\ part.start = (part.partNumber - 1) * chunkSize
         /\ part.end = part.start + part.length - 1
         /\ part.fileSize = total
         /\ part.start <= part.end
         /\ part.end < part.fileSize
         /\ part.start = IF i = 1 THEN 0 ELSE upload.calls[i - 1].end + 1
    /\ \A i, j \in 1..Len(upload.calls) :
         i < j => upload.calls[i].end < upload.calls[j].start
    /\ upload.pc = "returned" =>
         /\ upload.calls # <<>>
         /\ upload.calls[Len(upload.calls)].end = upload.size - 1

\* 7 MiB on Google Drive: bytes 0-4/7 and 5-6/7
ContentRangesTileThePayloadWitness ==
  /\ upload.pc = "returned"
  /\ upload.type = "gdrive"
  /\ upload.size = 7
  /\ Len(upload.calls) = 2
  /\ upload.calls[1].start = 0
  /\ upload.calls[1].end = 4
  /\ upload.calls[2].start = 5
  /\ upload.calls[2].end = 6
  /\ upload.calls[2].fileSize = 7

(* ------------------------- claims: Baidu slices ------------------------ *)
\* the slice uploads among the requests of the call
sliceUploads == {i \in 1..Len(call.out.requests) : call.out.requests[i].op = "slice"}

\* C36: the slice size chosen by Baidu putObject is 4 MiB by default,
\* 16 MiB for VIP tier 1 and 32 MiB for VIP tier 2; a configured size
\* overrides the tier and is clamped into [4 MiB, 32 MiB]; the slice size
\* always lies within [4 MiB, 32 MiB]; precreate declares
\* ceil(fileSize / sliceSize) digests, and an upload that goes on to its
\* create call has uploaded as many slices, partseq 0, 1, ... in order.
BaiduSliceSizeAndCount ==
  call.fn = "baiduSliced" =>
    LET s == call.out.sliceSize
        declared == call.out.requests[1].blocks
    IN
    /\ call.custom <= 0 =>
         s = (CASE call.vip_type = 2 -> 32 [] call.vip_type = 1 -> 16 [] OTHER -> 4)
    /\ call.custom > 0 =>
         s = (IF call.custom < 4 THEN 4 ELSE IF call.custom > 32 THEN 32 ELSE call.custom)
    /\ s >= 4
    /\ s <= 32
    /\ declared * s >= call.fileSize
    /\ declared > 0 => (declared - 1) * s < call.fileSize
    /\ Cardinality(sliceUploads) <= declared
    /\ \A i \in sliceUploads : call.out.requests[i].partseq = i - 2
    /\ call.out.requests[Len(call.out.requests)].op = "create" =>
         Cardinality(sliceUploads) = declared

\* 65 MiB with a configured size of 40 MiB: slices of 32 MiB, three digests
\* declared and three slices uploaded before create
BaiduSliceSizeAndCountWitness ==
  /\ call.fn = "baiduSliced"
  /\ call.custom = 40
  /\ call.vip_type = 1
  /\ call.fileSize = 65
  /\ call.out.sliceSize = 32
  /\ call.out.requests[1].blocks = 3
  /\ Len(call.out.requests) = 5
  /\ call.out.requests[5].op = "create"

(* ------------------------ claims: failed refresh ----------------------- *)
\* what the adapter needs for a refresh is missing from its configuration:
\* the refresh token, or the client id or secret of the local exchange
missingCredentials(c) ==
  \/ c.config.refresh_token = 0
  \/ ~c.config.use_online_api /\ (~c.config.client_id \/ ~c.config.client_secret)

\* C37: if a token refresh fails, because client id, client secret or
\* refresh token is missing (and then no network request is made), because
\* the provider answers with an error, or because the response carries no
\* access token, the adapter's config map, saving map and both dirty flags
\* are unchanged.
FailedRefreshChangesNothing ==
  (call.fn = "refreshToken" /\ call.out.thrown) =>
    /\ call.out.client = call.client
    /\ missingCredentials(call.client) => ~call.out.fetched

(* ------------------------ claims: Aliyun putObject --------------------- *)
\* the PUT of the data was sent
putSent == \E i \in 1..Len(call.out.requests) : call.out.requests[i].op = "PUT"

\* C38: Aliyun putObject reports success only if the provider accepted the
\* uploaded bytes: when the PUT of the data to the part upload URL is
\* answered with a status outside 200..299, putObject fails and does not
\* call the complete endpoint.
AliyunPutObjectChecksThePut ==
  (call.fn = "aliyunPutObject" /\ putSent /\ call.status \notin 200..299) =>
    /\ call.out.thrown
    /\ \A i \in 1..Len(call.out.requests) : call.out.requests[i].op # "complete"

(* -------------------------- claims: dirty flags ------------------------ *)
\* C39: the dirty flags of an adapter are monotonic: both start false, are
\* set only by a successful token refresh (or drive-info resolution), and
\* are never cleared by any operation; getStateUpdates returns null iff
\* neither flag is set, and hands over exactly the maps whose flag is set.
DirtyFlagsAreMonotonic ==
  /\ ~client.savingChanged /\ ~client.configChanged
  /\ [][/\ client.savingChanged => client'.savingChanged
        /\ client.configChanged => client'.configChanged
        /\ ( \/ client'.savingChanged # client.savingChanged
             \/ client'.configChanged # client.configChanged )
           => refreshes' = refreshes + 1
        /\ getStateUpdates(client').isNull
             <=> (~client'.savingChanged /\ ~client'.configChanged)
        /\ getStateUpdates(client').hasSaving <=> client'.savingChanged
        /\ getStateUpdates(client').hasConfig <=> client'.configChanged]_vars

\* a second refresh, after the provider signalled expiry, on an adapter
\* whose first refresh had set both flags: both are still set
DirtyFlagsAreMonotonicWitness ==
  /\ refreshes = 2
  /\ nAuthFail = 1
  /\ client.savingChanged
  /\ client.configChanged
  /\ ~getStateUpdates(client).isNull

(* ------------------------- claims: collectStats ------------------------ *)
RECURSIVE sizeOfAll(_)
sizeOfAll(S) ==
  IF S = {} THEN 0
  ELSE LET f == CHOOSE x \in S : TRUE IN f.size + sizeOfAll(S \ {f})

\* the folders of the drive with the root, and the pages a listing of one has
foldersOf(drive) == {<<>>} \cup {f.path : f \in {x \in drive : x.isDirectory}}

pagesOf(drive, prefix, pageSize) ==
  LET n == Cardinality(children(drive, prefix))
  IN  IF n = 0 THEN 1 ELSE (n + pageSize - 1) \div pageSize

callsFor(prefix) == SelectSeq(collect.calls, LAMBDA x : x.prefix = prefix)

\* the prefixes all the listings of the drive return
prefixesReturned(drive, selfListed) ==
  Cardinality({f \in drive : f.isDirectory})
  + (IF selfListed THEN Cardinality(foldersOf(drive)) ELSE 0)

collectStatsCounts ==
  /\ \* the listing of a prefix is begun at most once
     \A i, j \in 1..Len(collect.calls) :
        /\ collect.calls[i].prefix = collect.calls[j].prefix
        /\ collect.calls[i].token = Undefined
        /\ collect.calls[j].token = Undefined
        => i = j
  /\ collect.pc = "returned" =>
       /\ collect.visited = foldersOf(fs)
       /\ \A p \in foldersOf(fs) :
            /\ Len(callsFor(p)) = pagesOf(fs, p, collect.pageSize)
            /\ \A k \in 1..Len(callsFor(p)) : pageAsked(callsFor(p)[k].token) = k
       /\ collect.fileCount = Cardinality({f \in fs : ~f.isDirectory})
       /\ collect.totalSize = sizeOfAll({f \in fs : ~f.isDirectory})
       /\ collect.folderCount = prefixesReturned(fs, collect.selfListed)
  /\ collect.pc = "thrown" => ~collect.returned

\* C40: collectStats terminates; it begins the listing of a prefix at most
\* once and follows the continuation tokens through every page of it;
\* when it returns, every folder was listed, every file was counted once
\* with its size, and every returned prefix was counted and enqueued; when
\* listObjects throws, the traversal ends there and no statistics are
\* returned.
CollectStatsTerminatesAndCounts ==
  /\ []collectStatsCounts
  /\ [][collect.pc = "thrown" => collect' = collect]_vars
  /\ <>(collect.pc \in {"returned", "thrown"})

\* a drive with nested folders and a paginated listing was walked to the end
CollectStatsTerminatesAndCountsWitness ==
  /\ collect.pc = "returned"
  /\ collect.selfListed
  /\ collect.fileCount = 6
  /\ collect.folderCount = 7
  /\ Len(collect.calls) > Cardinality(collect.visited)

====
